---- MODULE Spec2Model ----
(***************************************************************************)
(* Collisional-radiative impurity model: rate-matrix construction          *)
(* (impurity.py), the direct and time-evolution solvers (impurity.py,      *)
(* solver.py) and the run orchestration (sike/core.py).                    *)
(*                                                                         *)
(* Numbers are integers.  Densities, rates and the time step are in        *)
(* normalised units; a linear solve is exact rational arithmetic           *)
(* (Cramer's rule) and an operation whose exact result is not an integer   *)
(* vector is outside the modelled inputs (the action is not enabled).      *)
(***************************************************************************)
EXTENDS Integers, Sequences, FiniteSets, TLC

\* ------------------------------------------------------------------ bounds
num_x == 2            \* spatial cells of the grid
tot_states == 3       \* atomic states kept by load_states
MaxSample == 4        \* electron samples a cell can hold (ElectronSample)
MaxDeltaT == 2        \* settings of input.DELTA_T (DeltaT)

\* ------------------------------------------------------- program constants
FRAC_IMP_DENS == 36   \* input.FRAC_IMP_DENS, initial impurity density per unit n_e
collrate_const == 1   \* n_norm * v_th * sigma_0 * t_norm
tbrec_norm == 1       \* n_norm * de Broglie wavelength cubed

\* ------------------------------------------------------------ arithmetic
Idx(n) == 0 .. (n - 1)
Cells == Idx(num_x)
Locs == Idx(tot_states)

Abs(x) == IF x < 0 THEN -x ELSE x

MaxOf(S) == CHOOSE m \in S : \A y \in S : y <= m

RECURSIVE SumTo(_, _)
SumTo(v, n) == IF n = 0 THEN 0 ELSE v[n - 1] + SumTo(v, n - 1)

\* np.sum over one row of a density array
SumVec(v) == SumTo(v, tot_states)

ZeroVec(n) == [k \in Idx(n) |-> 0]
ZeroMat(n) == [r \in Idx(n) |-> [c \in Idx(n) |-> 0]]
Identity(n) == [r \in Idx(n) |-> [c \in Idx(n) |-> IF r = c THEN 1 ELSE 0]]

\* column sum of an n x n matrix
RECURSIVE ColSumTo(_, _, _)
ColSumTo(M, c, n) == IF n = 0 THEN 0 ELSE M[n - 1][c] + ColSumTo(M, c, n - 1)

\* row . v over n entries
RECURSIVE DotTo(_, _, _)
DotTo(row, v, n) == IF n = 0 THEN 0 ELSE row[n - 1] * v[n - 1] + DotTo(row, v, n - 1)

\* the sequence s without its j-th element
RemoveAt(s, j) == SubSeq(s, 1, j - 1) \o SubSeq(s, j + 1, Len(s))

\* the column indices 0 .. n-1 in order
RECURSIVE ColsTo(_)
ColsTo(n) == IF n = 0 THEN << >> ELSE Append(ColsTo(n - 1), n - 1)

\* determinant by expansion along the rows: the minor of rows r.. and columns cols
RECURSIVE DetFrom(_, _, _), DetTerms(_, _, _, _)
DetTerms(M, r, cols, j) ==
  IF j > Len(cols) THEN 0
  ELSE (IF M[r][cols[j]] = 0 THEN 0
        ELSE (IF j % 2 = 1 THEN 1 ELSE -1) * M[r][cols[j]]
             * DetFrom(M, r + 1, RemoveAt(cols, j)))
       + DetTerms(M, r, cols, j + 1)
DetFrom(M, r, cols) == IF cols = << >> THEN 1 ELSE DetTerms(M, r, cols, 1)

Det(M, n) == DetFrom(M, 0, ColsTo(n))

ReplaceCol(M, k, b, n) == [r \in Idx(n) |-> [c \in Idx(n) |-> IF c = k THEN b[r] ELSE M[r][c]]]

Divides(d, a) == d # 0 /\ a % Abs(d) = 0
Quot(a, d) == IF d > 0 THEN a \div d ELSE (-a) \div (-d)

\* Cramer's rule for A x = b: the determinant and the numerators of the solution
Cramer(A, b, n) ==
  [det |-> Det(A, n), num |-> [k \in Idx(n) |-> Det(ReplaceCol(A, k, b, n), n)]]

\* the system has exactly one solution and it is an integer vector
Exact(cr, n) == cr.det # 0 /\ \A k \in Idx(n) : Divides(cr.det, cr.num[k])

\* the solution of the system: inv(A).dot(b)
Solution(cr, n) == [k \in Idx(n) |-> Quot(cr.num[k], cr.det)]

\* ------------------------------------------------- state table and catalogs
None == [iz |-> -1, statename |-> "None", loc |-> -1, statw |-> 0]

\* stages present in the state table (self.num_z)
num_z == (tot_states + 1) \div 2

\* Impurity.load_states: one State per kept line, loc = position in the list
states ==
  [k \in Locs |-> [iz |-> k \div 2,
                   statename |-> IF k % 2 = 0 THEN "g" ELSE "e",
                   loc |-> k,
                   statw |-> 1 + (k % 2)]]

\* Impurity.get_state: the first state with this stage and name, else None
get_state(iz, statename) ==
  IF \E k \in Locs : states[k].iz = iz /\ states[k].statename = statename
  THEN states[CHOOSE k \in Locs :
                /\ states[k].iz = iz /\ states[k].statename = statename
                /\ \A j \in Locs : (states[j].iz = iz /\ states[j].statename = statename) => k <= j]
  ELSE None

\* Impurity.get_ground_state: the first state of stage z
get_ground_state(z) ==
  states[CHOOSE k \in Locs : /\ states[k].iz = z
                             /\ \A j \in Locs : states[j].iz = z => k <= j]

\* the transition catalog file: the last records name states beyond a small table
transitions_txt ==
  << [trans_type |-> "ionization", from_iz |-> 0, from_statename |-> "g",
      to_iz |-> 1, to_statename |-> "g", sigma |-> 1],
     [trans_type |-> "radrec", from_iz |-> 1, from_statename |-> "g",
      to_iz |-> 0, to_statename |-> "g", sigma |-> 0],
     [trans_type |-> "excitation", from_iz |-> 0, from_statename |-> "g",
      to_iz |-> 0, to_statename |-> "e", sigma |-> 1],
     [trans_type |-> "excitation", from_iz |-> 1, from_statename |-> "g",
      to_iz |-> 1, to_statename |-> "e", sigma |-> 2],
     [trans_type |-> "ionization", from_iz |-> 1, from_statename |-> "g",
      to_iz |-> 2, to_statename |-> "g", sigma |-> 1],
     [trans_type |-> "radrec", from_iz |-> 2, from_statename |-> "g",
      to_iz |-> 1, to_statename |-> "g", sigma |-> 0] >>

\* the spontaneous-emission rate table (nist_spontem.txt)
nist_spontem ==
  << [iz |-> 0, Upper |-> "e", Lower |-> "g", rate |-> 1],
     [iz |-> 0, Upper |-> "e", Lower |-> "g", rate |-> 3],
     [iz |-> 1, Upper |-> "e", Lower |-> "g", rate |-> 4] >>

\* transition.Transition(...): the fields the rate-matrix build reads
Transition(kind, from_state, to_state, sigma, spontem_rate) ==
  [kind |-> kind, from_loc |-> from_state.loc, to_loc |-> to_state.loc,
   sigma |-> sigma, spontem_rate |-> spontem_rate]

\* one line of the catalog loop of load_transitions: is the record kept as `kind`
RetainedAnyToggle(l, kind, enabled) ==
  /\ get_state(l.from_iz, l.from_statename) # None
  /\ get_state(l.to_iz, l.to_statename) # None
  /\ l.trans_type = kind
RetainedFromOnly(l, kind, enabled) ==
  /\ get_state(l.from_iz, l.from_statename) # None
  /\ l.trans_type = kind
  /\ enabled
Retained(l, kind, enabled) ==
  /\ get_state(l.from_iz, l.from_statename) # None
  /\ get_state(l.to_iz, l.to_statename) # None
  /\ l.trans_type = kind
  /\ enabled

RECURSIVE load_kind(_, _, _)
load_kind(lines, kind, enabled) ==
  IF lines = << >> THEN << >>
  ELSE LET l == Head(lines) IN
       (IF Retained(l, kind, enabled)
        THEN << Transition(kind, get_state(l.from_iz, l.from_statename),
                           get_state(l.to_iz, l.to_statename), l.sigma, 0) >>
        ELSE << >>)
       \o load_kind(Tail(lines), kind, enabled)

RECURSIVE SumRates(_)
SumRates(rows) == IF rows = << >> THEN 0 ELSE Head(rows).rate + SumRates(Tail(rows))

\* rows of the rate table matched for stage z and the pair (from_state, to_state)
matched_transitions(z, from_state, to_state) ==
  SelectSeq(nist_spontem, LAMBDA row : /\ row.iz = z
                                       /\ row.Lower = to_state.statename
                                       /\ row.Upper = from_state.statename)

\* Impurity.load_spontem_transitions: loops z, from_state, to_state in that order
RECURSIVE load_spontem_from(_)
load_spontem_from(n) ==
  IF n = num_z * tot_states * tot_states THEN << >>
  ELSE LET z == n \div (tot_states * tot_states)
           from_state == states[(n \div tot_states) % tot_states]
           to_state == states[n % tot_states]
           m == matched_transitions(z, from_state, to_state)
       IN (IF /\ from_state.iz = to_state.iz
              /\ from_state.statename # to_state.statename
              /\ Len(m) > 0
           THEN << Transition("spontem", from_state, to_state, 0, SumRates(m) \div Len(m)) >>
           ELSE << >>)
          \o load_spontem_from(n + 1)

load_spontem_transitions == load_spontem_from(0)

\* ------------------------------------------------------ electron background
\* the electron samples a cell can hold: density, temperature and the moment
\* of the kinetic distribution the rate integrals see
ElectronSamples ==
  << [DENSITY |-> 1, TEMPERATURE |-> 1, DIST_F |-> 1],
     [DENSITY |-> 2, TEMPERATURE |-> 3, DIST_F |-> 1],
     [DENSITY |-> 1, TEMPERATURE |-> 2, DIST_F |-> 0],
     [DENSITY |-> 2, TEMPERATURE |-> 1, DIST_F |-> 3],
     [DENSITY |-> 3, TEMPERATURE |-> 3, DIST_F |-> 2],
     [DENSITY |-> 1, TEMPERATURE |-> 3, DIST_F |-> 2] >>

ElectronSample(k) == ElectronSamples[((k - 1) % Len(ElectronSamples)) + 1]

\* spf.maxwellian(Te, ne, vgrid): the Maxwellian moment at this density
maxwellian(Te, ne) == ne

\* rates.ion_rate / ex_rate: cross-section integrated against the distribution
ion_rate(f, sigma) == f * sigma
ex_rate(f, sigma) == f * sigma
\* rates.tbrec_rate / deex_rate: the detailed-balance partner of the same integral
tbrec_rate(f, Te, sigma) == f * sigma
deex_rate(f, sigma) == f * sigma
\* Transition.radrec_interp: the interpolant, negative below the table
radrec_interp(Te) == Te - 2

Max2(a, b) == IF a >= b THEN a ELSE b

\* ==================================================== Impurity (impurity.py)
VARIABLES
  input,                \* the feature toggles of module input
  data,                 \* skrun.data: the electron sample of every cell
  iz_transitions, radrec_transitions, ex_transitions, spontem_transitions,
  dens, dens_max, dens_saha, tmp_dens,
  rate_mat, rate_mat_max,
  op_mat, op_mat_max,   \* the operator I - DELTA_T * rate_mat whose inverse is applied
  built,                \* build_rate_matrices has set the matrix attributes
  residual,             \* the value the last evolve() returned
  last_call,            \* the method that ran last
  prev_call,            \* the method that ran before it
  pc                    \* "ok", or the exception that ended the script

imp_vars ==
  << input, data, iz_transitions, radrec_transitions, ex_transitions,
     spontem_transitions, dens, dens_max, dens_saha, tmp_dens, rate_mat,
     rate_mat_max, op_mat, op_mat_max, built, residual, last_call, prev_call, pc >>

\* the settings of input.DELTA_T, the implicit-Euler time step
DeltaTs == << 1, 4, 2 >>
DeltaT(k) == DeltaTs[((k - 1) % Len(DeltaTs)) + 1]

\* module input: the four feature toggles and the time step
Toggles ==
  [COLL_ION_REC : BOOLEAN, RAD_REC : BOOLEAN, COLL_EX_DEEX : BOOLEAN, SPONT_EM : BOOLEAN,
   DELTA_T : {DeltaT(k) : k \in 1 .. MaxDeltaT}]

\* Impurity.init_dens
init_densFlat(d) ==
  [i \in Cells |-> [k \in Locs |-> FRAC_IMP_DENS * d[i].DENSITY]]
init_dens(d) ==
  [i \in Cells |-> [k \in Locs |-> IF k = 0 THEN FRAC_IMP_DENS * d[i].DENSITY ELSE 0]]

zero_dens == [i \in Cells |-> ZeroVec(tot_states)]

\* ------------------------------------------------------ build_rate_matrices
\* "...loss": the entry (row, col, value) a process with rate K out of state s adds
LossEntryUnsigned(s, K) == << s, s, K >>
LossEntry(s, K) == << s, s, -K >>
\* "...gain": the entry the same process adds for its destination d
GainEntryMisplaced(s, d, K) == << s, d, K >>
GainEntry(s, d, K) == << d, s, K >>

\* the distribution a rate integral sees in cell i: f0[i, :] or f0_max[i, :]
f0_ofNext(d, i, kinetic) ==
  IF kinetic THEN d[(i + 1) % num_x].DIST_F
  ELSE maxwellian(d[(i + 1) % num_x].TEMPERATURE, d[(i + 1) % num_x].DENSITY)
f0_of(d, i, kinetic) ==
  IF kinetic THEN d[i].DIST_F ELSE maxwellian(d[i].TEMPERATURE, d[i].DENSITY)

RECURSIVE iz_entries(_, _, _, _)
iz_entries(ts, d, i, kinetic) ==
  IF ts = << >> THEN << >>
  ELSE LET iz_trans == Head(ts)
           K_ion == collrate_const * ion_rate(f0_of(d, i, kinetic), iz_trans.sigma)
           K_rec == d[i].DENSITY * collrate_const * tbrec_norm
                    * tbrec_rate(f0_of(d, i, kinetic), d[i].TEMPERATURE, iz_trans.sigma)
       IN << LossEntry(iz_trans.from_loc, K_ion),
             GainEntry(iz_trans.from_loc, iz_trans.to_loc, K_ion),
             LossEntry(iz_trans.to_loc, K_rec),
             GainEntry(iz_trans.to_loc, iz_trans.from_loc, K_rec) >>
          \o iz_entries(Tail(ts), d, i, kinetic)

\* alpha_radrec = max(radrec_interp(Te[i]), 0.0)
alpha_radrecRaw(Te) == radrec_interp(Te)
alpha_radrec(Te) == Max2(radrec_interp(Te), 0)

RECURSIVE radrec_entries(_, _, _)
radrec_entries(ts, d, i) ==
  IF ts = << >> THEN << >>
  ELSE LET radrec_trans == Head(ts)
           K == d[i].DENSITY * alpha_radrec(d[i].TEMPERATURE)
       IN << LossEntry(radrec_trans.from_loc, K),
             GainEntry(radrec_trans.from_loc, radrec_trans.to_loc, K) >>
          \o radrec_entries(Tail(ts), d, i)

RECURSIVE ex_entries(_, _, _, _)
ex_entries(ts, d, i, kinetic) ==
  IF ts = << >> THEN << >>
  ELSE LET ex_trans == Head(ts)
           K_ex == collrate_const * ex_rate(f0_of(d, i, kinetic), ex_trans.sigma)
           K_deex == collrate_const * deex_rate(f0_of(d, i, kinetic), ex_trans.sigma)
       IN << LossEntry(ex_trans.from_loc, K_ex),
             GainEntry(ex_trans.from_loc, ex_trans.to_loc, K_ex),
             LossEntry(ex_trans.to_loc, K_deex),
             GainEntry(ex_trans.to_loc, ex_trans.from_loc, K_deex) >>
          \o ex_entries(Tail(ts), d, i, kinetic)

RECURSIVE spontem_entries(_)
spontem_entries(ts) ==
  IF ts = << >> THEN << >>
  ELSE LET em_trans == Head(ts)
           beta_spontem == em_trans.spontem_rate
       IN << LossEntry(em_trans.from_loc, beta_spontem),
             GainEntry(em_trans.from_loc, em_trans.to_loc, beta_spontem) >>
          \o spontem_entries(Tail(ts))

\* rate_mat[i][row, col] += value, for every entry in order
RECURSIVE Accumulate(_, _)
Accumulate(M, es) ==
  IF es = << >> THEN M
  ELSE Accumulate([M EXCEPT ![Head(es)[1]][Head(es)[2]] = @ + Head(es)[3]], Tail(es))

\* the body of the cell loop of build_rate_matrices for one representation
build_cell(inp, d, izt, rrt, ext, emt, i, kinetic) ==
  Accumulate(ZeroMat(tot_states),
             (IF inp.COLL_ION_REC THEN iz_entries(izt, d, i, kinetic) ELSE << >>)
             \o (IF inp.RAD_REC THEN radrec_entries(rrt, d, i) ELSE << >>)
             \o (IF inp.COLL_EX_DEEX THEN ex_entries(ext, d, i, kinetic) ELSE << >>)
             \o (IF inp.SPONT_EM THEN spontem_entries(emt) ELSE << >>))

\* np.identity(tot_states) - input.DELTA_T * rate_mat[i]
be_operator(R) ==
  [r \in Locs |-> [c \in Locs |-> (IF r = c THEN 1 ELSE 0) - input.DELTA_T * R[r][c]]]

build_rate_matrices ==
  /\ pc = "ok"
  /\ LET rm == [i \in Cells |-> build_cell(input, data, iz_transitions, radrec_transitions,
                                           ex_transitions, spontem_transitions, i, TRUE)]
         rmm == [i \in Cells |-> build_cell(input, data, iz_transitions, radrec_transitions,
                                            ex_transitions, spontem_transitions, i, FALSE)]
         invertible == \A i \in Cells : /\ Det(be_operator(rm[i]), tot_states) # 0
                                        /\ Det(be_operator(rmm[i]), tot_states) # 0
     IN IF invertible
        THEN /\ rate_mat' = rm
             /\ rate_mat_max' = rmm
             /\ op_mat' = [i \in Cells |-> be_operator(rm[i])]
             /\ op_mat_max' = [i \in Cells |-> be_operator(rmm[i])]
             /\ built' = TRUE
             /\ pc' = "ok"
        ELSE \* np.linalg.inv raises before any attribute is assigned
             /\ UNCHANGED << rate_mat, rate_mat_max, op_mat, op_mat_max, built >>
             /\ pc' = "LinAlgError"
  /\ last_call' = "build_rate_matrices"
  /\ prev_call' = last_call
  /\ UNCHANGED << input, data, iz_transitions, radrec_transitions, ex_transitions,
                  spontem_transitions, dens, dens_max, dens_saha, tmp_dens, residual >>

\* ------------------------------------------------------------ Impurity.solve
\* loc_mat[-1, :] = 1.0 (loc_mat is the stored matrix itself, not a copy)
set_last_rowAdded(M) ==
  [r \in Locs |-> [c \in Locs |-> IF r = tot_states - 1 THEN M[r][c] + 1 ELSE M[r][c]]]
set_last_row(M) ==
  [r \in Locs |-> [c \in Locs |-> IF r = tot_states - 1 THEN 1 ELSE M[r][c]]]

\* rhs = zeros; rhs[-1] = np.sum(dens[i, :])
rhs_ofUnit(n) == [k \in Locs |-> IF k = tot_states - 1 THEN 1 ELSE 0]
rhs_of(n) == [k \in Locs |-> IF k = tot_states - 1 THEN SumVec(n) ELSE 0]

\* one of the two cell loops of solve, from cell i on: the densities and the
\* stored matrices it leaves, whether np.linalg.inv raised, and whether every
\* solution it computed is an integer vector
RECURSIVE solve_loop(_, _, _)
solve_loop(i, d, rm) ==
  IF i = num_x THEN [dens |-> d, rate_mat |-> rm, raised |-> FALSE, exact |-> TRUE]
  ELSE LET loc_mat == set_last_row(rm[i])
           rhs == rhs_of(d[i])
           stored == [rm EXCEPT ![i] = loc_mat]
           cr == Cramer(loc_mat, rhs, tot_states)
       IN IF cr.det = 0
          THEN [dens |-> d, rate_mat |-> stored, raised |-> TRUE, exact |-> TRUE]
          ELSE IF ~Exact(cr, tot_states)
          THEN [dens |-> d, rate_mat |-> stored, raised |-> FALSE, exact |-> FALSE]
          ELSE solve_loop(i + 1, [d EXCEPT ![i] = Solution(cr, tot_states)], stored)

solve ==
  /\ pc = "ok"
  /\ built
  /\ LET kin == solve_loop(0, dens, rate_mat)
         max == solve_loop(0, dens_max, rate_mat_max)
     IN /\ kin.exact
        /\ dens' = kin.dens
        /\ rate_mat' = kin.rate_mat
        /\ IF kin.raised
           THEN /\ UNCHANGED << dens_max, rate_mat_max >>
                /\ pc' = "LinAlgError"
           ELSE /\ max.exact
                /\ dens_max' = max.dens
                /\ rate_mat_max' = max.rate_mat
                /\ pc' = IF max.raised THEN "LinAlgError" ELSE "ok"
  /\ last_call' = "solve"
  /\ prev_call' = last_call
  /\ UNCHANGED << input, data, iz_transitions, radrec_transitions, ex_transitions,
                  spontem_transitions, dens_saha, tmp_dens, op_mat, op_mat_max,
                  built, residual >>

\* ----------------------------------------------------------- Impurity.evolve
\* np.max(np.abs(a - b)) over all cells and states
max_abs_diff(a, b) == MaxOf({Abs(a[i][k] - b[i][k]) : i \in Cells, k \in Locs})

\* op_mat[i].dot(n): the inverse of the stored operator applied to n,
\* as the determinants of Cramer's rule
apply_opLeft(op, n) ==
  Cramer([r \in Locs |-> [c \in Locs |-> op[c][r]]], n, tot_states)
apply_op(op, n) == Cramer(op, n, tot_states)

evolveSaha ==
  /\ pc = "ok"
  /\ built
  /\ LET cr == [i \in Cells |-> apply_op(op_mat[i], dens[i])]
         cr_max == [i \in Cells |-> apply_op(op_mat_max[i], dens_max[i])]
         new == [i \in Cells |-> Solution(cr[i], tot_states)]
         new_max == [i \in Cells |-> Solution(cr_max[i], tot_states)]
     IN /\ \A i \in Cells : Exact(cr[i], tot_states) /\ Exact(cr_max[i], tot_states)
        /\ dens' = new
        /\ dens_max' = new_max
        /\ tmp_dens' = new_max
        /\ dens_saha' = new_max
        /\ residual' = Max2(max_abs_diff(new, dens), max_abs_diff(new_max, dens_max))
  /\ last_call' = "evolve"
  /\ prev_call' = last_call
  /\ pc' = "ok"
  /\ UNCHANGED << input, data, iz_transitions, radrec_transitions, ex_transitions,
                  spontem_transitions, rate_mat, rate_mat_max, op_mat,
                  op_mat_max, built >>
evolve ==
  /\ pc = "ok"
  /\ built
  /\ LET cr == [i \in Cells |-> apply_op(op_mat[i], dens[i])]
         cr_max == [i \in Cells |-> apply_op(op_mat_max[i], dens_max[i])]
         new == [i \in Cells |-> Solution(cr[i], tot_states)]
         new_max == [i \in Cells |-> Solution(cr_max[i], tot_states)]
     IN /\ \A i \in Cells : Exact(cr[i], tot_states) /\ Exact(cr_max[i], tot_states)
        /\ dens' = new
        /\ dens_max' = new_max
        /\ tmp_dens' = new_max
        /\ residual' = Max2(max_abs_diff(new, dens), max_abs_diff(new_max, dens_max))
  /\ last_call' = "evolve"
  /\ prev_call' = last_call
  /\ pc' = "ok"
  /\ UNCHANGED << input, data, iz_transitions, radrec_transitions, ex_transitions,
                  spontem_transitions, dens_saha, rate_mat, rate_mat_max, op_mat,
                  op_mat_max, built >>

\* -------------------------------------------------------- Impurity.get_saha_eq
\* dens_ratios[z-1]: the Saha ratio of stage z to stage z - 1 in cell i, which
\* grows with the temperature of the cell
dens_ratio(z, i) == data[i].TEMPERATURE

\* np.prod(dens_ratios[:z+1])
RECURSIVE prod_ratios(_, _)
prod_ratios(z, i) == IF z < 0 THEN 1 ELSE dens_ratio(z + 1, i) * prod_ratios(z - 1, i)

\* denom_sum = 1.0 + np.sum([np.prod(dens_ratios[:z+1]) for z in range(num_z-1)])
RECURSIVE denom_sum(_, _)
denom_sum(n, i) == IF n = 0 THEN 1 ELSE prod_ratios(n - 1, i) + denom_sum(n - 1, i)

\* the row of cell i: imp_dens_tot / denom_sum at index 0, then each ground
\* state from the ground state of the stage below
RECURSIVE saha_row(_, _, _)
saha_row(row, z, i) ==
  IF z = num_z THEN row
  ELSE saha_row([row EXCEPT ![get_ground_state(z).loc] =
                   row[get_ground_state(z - 1).loc] * dens_ratio(z, i)],
                z + 1, i)

\* lines 154-178; self.iz_transitions[z-1] raises IndexError in the first cell
\* when fewer than num_z - 1 ionizations are held (none at all when the toggle
\* is off), before anything is written
get_saha_eq ==
  /\ pc = "ok"
  /\ IF Len(iz_transitions) < num_z - 1
     THEN /\ pc' = "IndexError"
          /\ UNCHANGED dens_saha
     ELSE /\ \A i \in Cells : Divides(denom_sum(num_z - 1, i), SumVec(dens[i]))
          /\ dens_saha' =
               [i \in Cells |->
                  saha_row([dens_saha[i] EXCEPT
                              ![0] = Quot(SumVec(dens[i]), denom_sum(num_z - 1, i))],
                           1, i)]
          /\ pc' = "ok"
  /\ last_call' = "get_saha_eq"
  /\ prev_call' = last_call
  /\ UNCHANGED << input, data, iz_transitions, radrec_transitions, ex_transitions,
                  spontem_transitions, dens, dens_max, tmp_dens, rate_mat, rate_mat_max,
                  op_mat, op_mat_max, built, residual >>


\* ------------------------------------------------------- Impurity.__init__
ImpInit ==
  /\ input \in Toggles
  /\ data \in [Cells -> {ElectronSample(k) : k \in 1 .. MaxSample}]
  /\ iz_transitions = load_kind(transitions_txt, "ionization", input.COLL_ION_REC)
  /\ radrec_transitions = load_kind(transitions_txt, "radrec", input.RAD_REC)
  /\ ex_transitions = load_kind(transitions_txt, "excitation", input.COLL_EX_DEEX)
  /\ spontem_transitions = IF input.SPONT_EM THEN load_spontem_transitions ELSE << >>
  /\ dens = init_dens(data)
  /\ dens_max = init_dens(data)
  /\ dens_saha = zero_dens
  /\ tmp_dens = zero_dens
  /\ rate_mat = [i \in Cells |-> ZeroMat(tot_states)]
  /\ rate_mat_max = [i \in Cells |-> ZeroMat(tot_states)]
  /\ op_mat = [i \in Cells |-> Identity(tot_states)]
  /\ op_mat_max = [i \in Cells |-> Identity(tot_states)]
  /\ built = FALSE
  /\ residual = 0
  /\ last_call = "__init__"
  /\ prev_call = "__init__"
  /\ pc = "ok"


\* ======================================================= solver.py under MPI
\* Every rank runs the same function on its own cells [min_x, max_x); the ranks
\* interleave and meet only in the collectives.
VARIABLES
  num_procs,            \* PETSc.COMM_WORLD.Get_size()
  cell_sample,          \* the input sample of every cell (PetscSample)
  n_init,               \* the density array passed in, all cells
  dt, num_t, dndt_thresh, ksp_tol,
  rate_matrix,          \* per rank: its local matrix, num_states * loc_num_x square
  rhs,                  \* per rank: the right-hand side of the direct solve
  k_pc,                 \* per rank: "idle", "loop", "gather", "barrier", "returned"
  loop_i,               \* per rank: the loop index i of evolve
  n_old, n_new,         \* per rank: the local density vectors
  n_stable,             \* per rank: n_old as the latest ksp.solve read it (line 144)
  ksp_failed, dndt,     \* per rank: the local failure flag and residual
  prev_residual,        \* per rank
  compared_prev,        \* per rank: the prev_residual the last decision compared with
  dndt_global, exit_flag,  \* per rank: what the last broadcast delivered
  branch,               \* per rank: the way the last step left the loop body
  n_solved,             \* per rank: the value returned
  all_gathered,         \* the gather buffers at the root, one slot per rank
  bcast_box,            \* per rank: broadcasts sent by the root, not yet received
  at_barrier,           \* ranks that have entered PETSc.COMM_WORLD.Barrier()
  cell_dndt             \* per cell: the residual of the cell in its latest step

ksp_vars ==
  << num_procs, cell_sample, n_init, dt, num_t, dndt_thresh, ksp_tol, rate_matrix,
     rhs, k_pc, loop_i, n_old, n_new, ksp_failed, dndt, prev_residual, compared_prev,
     dndt_global, exit_flag, branch, n_solved, all_gathered, bcast_box, at_barrier, cell_dndt,
     n_stable >>

\* ------------------------------------------------ sike/core.py: SIKERun.run
VARIABLES
  modelled_impurities,  \* opts["modelled_impurities"], a list of elements
  kinetic_electrons,    \* self.kinetic_electrons
  maxwellian_electrons, \* self.maxwellian_electrons
  self_evolve,          \* self.evolve
  run_pc,               \* where run() is: "line347", "compute", "line356", "returned"
  kinetic,              \* the kinetic argument of the running compute_densities
  el_i,                 \* the index of el in the loop of compute_densities
  success,              \* self.success, "unset" until compute_densities assigns it
  rate_mats,            \* elements with a kinetic matrix in self.rate_mats
  rate_mats_Max,        \* elements with a Maxwellian matrix in self.rate_mats_Max
  imp_dens,             \* per element: impurities[el].dens, "initial" or "n_solved"
  imp_dens_Max,         \* per element: impurities[el].dens_Max
  failed_calls          \* the (kinetic, el) solver calls that returned None

run_vars ==
  << modelled_impurities, kinetic_electrons, maxwellian_electrons, self_evolve, run_pc,
     kinetic, el_i, success, rate_mats, rate_mats_Max, imp_dens, imp_dens_Max,
     failed_calls >>

\* ------------------------------------------- impurity.py: derived quantities
VARIABLES
  Zeff, Zeff_max, Zeff_saha,  \* the attributes get_Zeff assigns, << >> before
  Zeff_last                   \* self.Zeff as the latest call of get_Zeff found it

diag_vars == << Zeff, Zeff_max, Zeff_saha, Zeff_last >>

\* the derived quantities before any call
DiagIdle ==
  /\ Zeff = << >> /\ Zeff_max = << >> /\ Zeff_saha = << >> /\ Zeff_last = << >>

\* -------------------------------- sike/core.py: SIKERun.calc_eff_rate_mats
VARIABLES
  eff_kinetic,          \* the argument kinetic
  eff_els,              \* len(opts["modelled_impurities"])
  eff_loc_num_x,        \* self.loc_num_x
  eff_pc,               \* "element", "cell", "store", "returned", "LinAlgError"
  eff_el, eff_i,        \* the element and the local cell the loops are at
  eff_tot_states,       \* impurities[el].tot_states
  num_P, num_Q,         \* impurities[el].num_P_states, num_Q_states
  M_cell,               \* M, the local matrix of the cell
  M_P, M_Q, M_PQ, M_QP, \* the four slices of M
  eff_rate_mats,        \* the local dict, element -> list over the local cells
  stored_eff_rate_mats, stored_eff_rate_mats_Max  \* the attributes of self

eff_vars ==
  << eff_kinetic, eff_els, eff_loc_num_x, eff_pc, eff_el, eff_i, eff_tot_states,
     num_P, num_Q, M_cell, M_P, M_Q, M_PQ, M_QP, eff_rate_mats,
     stored_eff_rate_mats, stored_eff_rate_mats_Max >>

\* no call of calc_eff_rate_mats
EffIdle ==
  /\ eff_kinetic = FALSE /\ eff_els = 1 /\ eff_loc_num_x = 1
  /\ eff_pc = "returned" /\ eff_el = 1 /\ eff_i = 0
  /\ eff_tot_states = 1 /\ num_P = 1 /\ num_Q = 0
  /\ M_cell = << >> /\ M_P = << >> /\ M_Q = << >> /\ M_PQ = << >> /\ M_QP = << >>
  /\ eff_rate_mats = << >>
  /\ stored_eff_rate_mats = << >> /\ stored_eff_rate_mats_Max = << >>

\* ------------------------------------- sike/core.py: SIKERun under construction
VARIABLES
  comm_size,            \* PETSc.COMM_WORLD.Get_size()
  given,                \* which of fe, vgrid, Te, ne __init__ is passed (not None)
  len_x,                \* the length of the passed arrays along x
  skrun,                \* per rank: the attributes assigned so far, by name
  init_pc               \* per rank: "new", "done" or the exception raised

init_vars == << comm_size, given, len_x, skrun, init_pc >>

\* the construction variables while no constructor is looked at
ConstructIdle ==
  /\ comm_size = 1 /\ len_x = 1
  /\ given = [fe |-> TRUE, vgrid |-> TRUE, Te |-> FALSE, ne |-> FALSE]
  /\ skrun = << >> /\ init_pc = << >>

\* --------------------------------------------------------------- bounds
num_states == 2       \* states per cell of the arrays passed to solver.py
MaxPetscSample == 2   \* input samples a cell can hold (PetscSample)
MaxRunSample == 3     \* run configurations (RunSample)
MaxDens == 5          \* the largest density an iterate of the solver holds

\* prev_residual = 1e20: above every residual of the model
prev_residual_init == 1000000

Ranks == Idx(num_procs)
States == Idx(num_states)

\* SIKERun.init_from_dist: the cells of a rank
min_x(rank) == (rank * num_x) \div num_procs
max_x(rank) == IF rank = num_procs - 1 THEN num_x ELSE ((rank + 1) * num_x) \div num_procs
loc_num_x(rank) == max_x(rank) - min_x(rank)
Dim(rank) == num_states * loc_num_x(rank)

\* the inputs of one cell: the rates up and down the chain of states, the
\* density the cell starts with in state 0 and, for the direct solve, in the
\* other states
PetscSamples ==
  << [up |-> 1, down |-> 0, n0 |-> 4, n1 |-> 1],
     [up |-> 0, down |-> 1, n0 |-> 2, n1 |-> 0],
     [up |-> 1, down |-> 1, n0 |-> 2, n1 |-> 2],
     [up |-> 2, down |-> 1, n0 |-> 3, n1 |-> 1],
     [up |-> 1, down |-> 2, n0 |-> 3, n1 |-> 0],
     [up |-> 0, down |-> 0, n0 |-> 3, n1 |-> 1] >>

PetscSample(k) == PetscSamples[((k - 1) % Len(PetscSamples)) + 1]

\* the rate matrix of one cell as the builder fills it: loss on the diagonal,
\* gain in the destination row
cell_block(smp) ==
  [r \in States |-> [c \in States |->
     IF r = c THEN -((IF c < num_states - 1 THEN smp.up ELSE 0) + (IF c > 0 THEN smp.down ELSE 0))
     ELSE IF r = c + 1 THEN smp.up
     ELSE IF r = c - 1 THEN smp.down
     ELSE 0]]

\* the local matrix of a rank: the blocks of its cells on the diagonal
local_rate_matrix(smps, rank) ==
  [row \in Idx(Dim(rank)) |-> [col \in Idx(Dim(rank)) |->
     IF row \div num_states = col \div num_states
     THEN cell_block(smps[min_x(rank) + row \div num_states])[row % num_states][col % num_states]
     ELSE 0]]

\* n_init[min_x:max_x, :].flatten()
flatten(n, rank) ==
  [j \in Idx(Dim(rank)) |-> n[min_x(rank) + j \div num_states][j % num_states]]

\* the run configurations: number of MPI processes, time step, step budget,
\* residual threshold (in residual units) and solver tolerance
RunSamples ==
  << [num_procs |-> 1, dt |-> 1, num_t |-> 10, dndt_thresh |-> 0, ksp_tol |-> 1],
     [num_procs |-> 2, dt |-> 2, num_t |-> 2, dndt_thresh |-> 0, ksp_tol |-> 1],
     [num_procs |-> 2, dt |-> 1, num_t |-> 3, dndt_thresh |-> 4, ksp_tol |-> 1],
     [num_procs |-> 1, dt |-> 2, num_t |-> 11, dndt_thresh |-> 1, ksp_tol |-> 0] >>

RunSample(k) == RunSamples[((k - 1) % Len(RunSamples)) + 1]

\* residuals are held in units of 1 / ResidualUnit, so that x / dt is exact for
\* every time step of the run configurations
RECURSIVE DtProduct(_)
DtProduct(n) == IF n = 0 THEN 1 ELSE RunSamples[n].dt * DtProduct(n - 1)
ResidualUnit == DtProduct(Len(RunSamples))
DivDt(x, d) == (x * ResidualUnit) \div d

\* ------------------------------------------------------------ ksp.solve
\* the block of cell j of a local matrix, and of a local vector
Block(A, j) == [r \in States |-> [c \in States |-> A[j * num_states + r][j * num_states + c]]]
BlockVec(v, j) == [k \in States |-> v[j * num_states + k]]

\* I - dt * rate_matrix
be_op_mat(A, d, n) ==
  [r \in Idx(n) |-> [c \in Idx(n) |-> (IF r = c THEN 1 ELSE 0) - d * A[r][c]]]

\* the squared 2-norm of the residual b - A x of one cell
RECURSIVE Defect2(_, _, _, _)
Defect2(A, b, x, n) ==
  IF n = 0 THEN 0
  ELSE (DotTo(A[n - 1], x, num_states) - b[n - 1]) * (DotTo(A[n - 1], x, num_states) - b[n - 1])
       + Defect2(A, b, x, n - 1)

\* the local vectors, cell by cell from cell j on, whose residual norm squared
\* stays within the budget (the matrix couples no two cells)
RECURSIVE CellProduct(_, _, _, _, _)
CellProduct(A, b, budget, j, loc) ==
  IF j = loc THEN {<< >>}
  ELSE UNION {
         {<< x >> \o rest :
            rest \in CellProduct(A, b, budget - Defect2(Block(A, j), BlockVec(b, j), x, num_states),
                                 j + 1, loc)} :
         x \in {y \in [States -> 0 .. MaxDens] :
                  Defect2(Block(A, j), BlockVec(b, j), y, num_states) <= budget}}

unflatten(xs, n) == [j \in Idx(n) |-> xs[(j \div num_states) + 1][j % num_states]]

\* ksp.solve(b, x) of the time evolution: either an iterate whose residual
\* 2-norm is within the tolerance and a positive converged reason, or a negative reason and the iterate the
\* solver stopped at (the zero initial guess, or b)
KspOutcomes(A, b, tol, rank) ==
  {[n |-> unflatten(xs, Dim(rank)), reason |-> 1] :
     xs \in CellProduct(A, b, tol * tol, 0, loc_num_x(rank))}
  \cup {[n |-> ZeroVec(Dim(rank)), reason |-> -1], [n |-> b, reason |-> -1]}

\* np.max(np.abs(n_old - n_new)) / dt
local_dndt(a, b, d, n) == DivDt(MaxOf({Abs(a[j] - b[j]) : j \in Idx(n)}), d)

\* the same for the states of one cell
cell_residual(a, b, d, j) ==
  DivDt(MaxOf({Abs(a[j * num_states + k] - b[j * num_states + k]) : k \in States}), d)

\* n_solved = np.array([[n_new[i + j * num_states] ...] ...])
as_array(v, rank) ==
  [j \in Idx(loc_num_x(rank)) |-> [k \in States |-> v[k + j * num_states]]]

NoMsg == [ksp_failed |-> -1, dndt |-> -1]
Pending == "Pending"
NoneResult == "None"

\* ---------------------------------------------------------- evolve: one step
\* lines 144-160: the local solve, the residual, the density update and the
\* rank's contribution to the gathers
EvolveStep(rank) ==
  /\ k_pc[rank] = "loop"
  /\ \E o \in KspOutcomes(be_op_mat(rate_matrix[rank], dt, Dim(rank)), n_old[rank],
                          ksp_tol, rank) :
       LET failed == IF o.reason < 0 THEN 1 ELSE 0
           res == local_dndt(n_old[rank], o.n, dt, Dim(rank))
       IN /\ n_new' = [n_new EXCEPT ![rank] = o.n]
          /\ n_old' = [n_old EXCEPT ![rank] = o.n]
          /\ n_stable' = [n_stable EXCEPT ![rank] = n_old[rank]]
          /\ ksp_failed' = [ksp_failed EXCEPT ![rank] = failed]
          /\ dndt' = [dndt EXCEPT ![rank] = res]
          /\ all_gathered' = [all_gathered EXCEPT ![rank] = [ksp_failed |-> failed, dndt |-> res]]
          /\ cell_dndt' = [g \in Cells |->
                             IF g >= min_x(rank) /\ g < max_x(rank)
                             THEN cell_residual(n_old[rank], o.n, dt, g - min_x(rank))
                             ELSE cell_dndt[g]]
  /\ k_pc' = [k_pc EXCEPT ![rank] = "gather"]
  /\ UNCHANGED << num_procs, cell_sample, n_init, dt, num_t, dndt_thresh, ksp_tol,
                  rate_matrix, rhs, loop_i, prev_residual, compared_prev, dndt_global,
                  exit_flag, branch, n_solved, bcast_box, at_barrier >>
  /\ UNCHANGED << imp_vars, run_vars, init_vars, diag_vars, eff_vars >>

\* max(all_dndts) and sum(all_ksp_failed) at the root
reduce_maxOwn(buf) == buf[0].dndt
reduce_max(buf) == MaxOf({buf[q].dndt : q \in Ranks})
RECURSIVE SumFailed(_, _)
SumFailed(buf, n) == IF n = 0 THEN 0 ELSE buf[n - 1].ksp_failed + SumFailed(buf, n - 1)
reduce_failedOwn(buf) == buf[0].ksp_failed
reduce_failed(buf) == SumFailed(buf, num_procs)

\* lines 172-191: the way the loop body ends, from the broadcast values
\*   "abort": return None; "diverged", "converged": break;
\*   "exhausted": the range is used up; "continue": the next iteration
BranchAfterFirst(flag, g, prev, idx, nt, thresh) ==
  IF flag > 0 THEN "abort"
  ELSE IF g > prev /\ idx > 0 THEN "diverged"
  ELSE IF g < thresh THEN "converged"
  ELSE IF idx + 1 >= nt THEN "exhausted"
  ELSE "continue"
BranchNoSettling(flag, g, prev, idx, nt, thresh) ==
  IF flag > 0 THEN "abort"
  ELSE IF g > prev THEN "diverged"
  ELSE IF g < thresh THEN "converged"
  ELSE IF idx + 1 >= nt THEN "exhausted"
  ELSE "continue"
Branch(flag, g, prev, idx, nt, thresh) ==
  IF flag > 0 THEN "abort"
  ELSE IF g > prev /\ 10 * idx > nt THEN "diverged"
  ELSE IF g < thresh THEN "converged"
  ELSE IF idx + 1 >= nt THEN "exhausted"
  ELSE "continue"

\* what a rank does with the broadcast values (lines 168-197)
Decide(rank, g, flag) ==
  LET b == Branch(flag, g, prev_residual[rank], loop_i[rank], num_t, dndt_thresh)
  IN /\ dndt_global' = [dndt_global EXCEPT ![rank] = g]
     /\ exit_flag' = [exit_flag EXCEPT ![rank] = flag]
     /\ branch' = [branch EXCEPT ![rank] = b]
     /\ compared_prev' = [compared_prev EXCEPT ![rank] = prev_residual[rank]]
     /\ prev_residual' = [prev_residual EXCEPT ![rank] =
                            IF b \in {"abort", "diverged"} THEN @ ELSE g]
     /\ loop_i' = [loop_i EXCEPT ![rank] = IF b = "continue" THEN @ + 1 ELSE @]
     /\ k_pc' = [k_pc EXCEPT ![rank] =
                   IF b = "abort" THEN "returned"
                   ELSE IF b = "continue" THEN "loop" ELSE "barrier"]
     /\ n_solved' = [n_solved EXCEPT ![rank] = IF b = "abort" THEN NoneResult ELSE @]
     /\ at_barrier' = IF b \in {"diverged", "converged", "exhausted"}
                      THEN at_barrier \cup {rank} ELSE at_barrier

\* comm.gather(..., root=0), lines 158-160: the root leaves the gathers once
\* every rank has contributed its values of the step
gather_completeOwn(buf) == buf[0] # NoMsg
gather_complete(buf) == \A q \in Ranks : buf[q] # NoMsg

\* the root: the gathers complete, it reduces, broadcasts and goes on
RootReduce ==
  /\ k_pc[0] = "gather"
  /\ gather_complete(all_gathered)
  /\ LET max_dndt == reduce_max(all_gathered)
         solver_failed == reduce_failed(all_gathered)
     IN /\ bcast_box' = [q \in Ranks |->
                           IF q = 0 THEN bcast_box[q]
                           ELSE Append(bcast_box[q], << max_dndt, solver_failed >>)]
        /\ Decide(0, max_dndt, solver_failed)
  /\ all_gathered' = [q \in Ranks |-> NoMsg]
  /\ UNCHANGED << num_procs, n_stable, cell_sample, n_init, dt, num_t, dndt_thresh, ksp_tol,
                  rate_matrix, rhs, n_old, n_new, ksp_failed, dndt, cell_dndt >>
  /\ UNCHANGED << imp_vars, run_vars, init_vars, diag_vars, eff_vars >>

\* comm.bcast(value, root=0) on a rank other than the root: the root's value
bcastOwn(root_value, own_value) == own_value
bcast(root_value, own_value) == root_value

\* another rank: the broadcasts deliver the root's values
RecvBcast(rank) ==
  /\ rank # 0
  /\ k_pc[rank] = "gather"
  /\ bcast_box[rank] # << >>
  /\ Decide(rank, bcast(Head(bcast_box[rank])[1], dndt[rank]),
             bcast(Head(bcast_box[rank])[2], ksp_failed[rank]))
  /\ bcast_box' = [bcast_box EXCEPT ![rank] = Tail(@)]
  /\ UNCHANGED << num_procs, n_stable, cell_sample, n_init, dt, num_t, dndt_thresh, ksp_tol,
                  rate_matrix, rhs, n_old, n_new, ksp_failed, dndt, all_gathered,
                  cell_dndt >>
  /\ UNCHANGED << imp_vars, run_vars, init_vars, diag_vars, eff_vars >>

\* lines 194-204: past the barrier the rank returns its local array
EvolveReturn(rank) ==
  /\ k_pc[rank] = "barrier"
  /\ at_barrier = Ranks
  /\ k_pc' = [k_pc EXCEPT ![rank] = "returned"]
  /\ n_solved' = [n_solved EXCEPT ![rank] = as_array(n_new[rank], rank)]
  /\ UNCHANGED << num_procs, n_stable, cell_sample, n_init, dt, num_t, dndt_thresh, ksp_tol,
                  rate_matrix, rhs, loop_i, n_old, n_new, ksp_failed, dndt, prev_residual,
                  compared_prev, dndt_global, exit_flag, branch, all_gathered, bcast_box, at_barrier,
                  cell_dndt >>
  /\ UNCHANGED << imp_vars, run_vars, init_vars, diag_vars, eff_vars >>

\* the arguments every rank passes to solver.py
KspInputs ==
  /\ num_procs \in 1 .. num_x
  /\ cell_sample \in [Cells -> {PetscSample(k) : k \in 1 .. MaxPetscSample}]
  /\ n_init = [g \in Cells |-> [k \in States |-> IF k = 0 THEN cell_sample[g].n0 ELSE 0]]
  /\ rate_matrix = [q \in Ranks |-> local_rate_matrix(cell_sample, q)]

\* the ranks at the top of evolve's loop (lines 96-141)
EvolveInit ==
  /\ KspInputs
  /\ \E k \in 1 .. MaxRunSample :
       /\ num_procs = RunSample(k).num_procs
       /\ dt = RunSample(k).dt
       /\ num_t = RunSample(k).num_t
       /\ dndt_thresh = RunSample(k).dndt_thresh
       /\ ksp_tol = RunSample(k).ksp_tol
  /\ rhs = [q \in Ranks |-> ZeroVec(Dim(q))]
  /\ k_pc = [q \in Ranks |-> "loop"]
  /\ loop_i = [q \in Ranks |-> 0]
  /\ n_old = [q \in Ranks |-> flatten(n_init, q)]
  /\ n_new = [q \in Ranks |-> ZeroVec(Dim(q))]
  /\ n_stable = [q \in Ranks |-> flatten(n_init, q)]
  /\ ksp_failed = [q \in Ranks |-> 0]
  /\ dndt = [q \in Ranks |-> 0]
  /\ prev_residual = [q \in Ranks |-> prev_residual_init]
  /\ compared_prev = [q \in Ranks |-> prev_residual_init]
  /\ dndt_global = [q \in Ranks |-> -1]
  /\ exit_flag = [q \in Ranks |-> 0]
  /\ branch = [q \in Ranks |-> "continue"]
  /\ n_solved = [q \in Ranks |-> Pending]
  /\ all_gathered = [q \in Ranks |-> NoMsg]
  /\ bcast_box = [q \in Ranks |-> << >>]
  /\ at_barrier = {}
  /\ cell_dndt = [g \in Cells |-> -1]

\* the solver variables while no solver call is running
KspIdle ==
  /\ num_procs = 1
  /\ cell_sample = [g \in Cells |-> PetscSample(1)]
  /\ n_init = [g \in Cells |-> ZeroVec(num_states)]
  /\ dt = 1 /\ num_t = 1 /\ dndt_thresh = 1 /\ ksp_tol = 0
  /\ rate_matrix = << >> /\ rhs = << >>
  /\ k_pc = << >> /\ loop_i = << >> /\ n_old = << >> /\ n_new = << >>
  /\ n_stable = << >>
  /\ ksp_failed = << >> /\ dndt = << >> /\ prev_residual = << >> /\ compared_prev = << >>
  /\ dndt_global = << >> /\ exit_flag = << >> /\ branch = << >>
  /\ n_solved = << >> /\ all_gathered = << >> /\ bcast_box = << >>
  /\ at_barrier = {}
  /\ cell_dndt = << >>

\* the run variables while no run() is looked at
RunIdle ==
  /\ modelled_impurities = << >>
  /\ kinetic_electrons = FALSE /\ maxwellian_electrons = FALSE /\ self_evolve = FALSE
  /\ run_pc = "returned" /\ kinetic = FALSE /\ el_i = 0
  /\ success = "unset"
  /\ rate_mats = {} /\ rate_mats_Max = {}
  /\ imp_dens = << >> /\ imp_dens_Max = << >>
  /\ failed_calls = {}

vars == << imp_vars, ksp_vars, run_vars, init_vars, diag_vars, eff_vars >>

Init == ImpInit /\ KspIdle /\ RunIdle /\ ConstructIdle /\ DiagIdle /\ EffIdle

Next ==
  \/ (build_rate_matrices /\ UNCHANGED << ksp_vars, run_vars, init_vars, diag_vars, eff_vars >>)
  \/ (solve /\ UNCHANGED << ksp_vars, run_vars, init_vars, diag_vars, eff_vars >>)
  \/ (evolve /\ UNCHANGED << ksp_vars, run_vars, init_vars, diag_vars, eff_vars >>)
  \/ (get_saha_eq /\ UNCHANGED << ksp_vars, run_vars, init_vars, diag_vars, eff_vars >>)

Spec == Init /\ [][Next]_vars


\* ------------------------------------------- the distributed time evolution
\* the Impurity variables while only solver.py is looked at
ImpIdle ==
  /\ input = [COLL_ION_REC |-> FALSE, RAD_REC |-> FALSE, COLL_EX_DEEX |-> FALSE,
              SPONT_EM |-> FALSE, DELTA_T |-> 1]
  /\ data = [c \in Cells |-> ElectronSample(1)]
  /\ iz_transitions = << >> /\ radrec_transitions = << >>
  /\ ex_transitions = << >> /\ spontem_transitions = << >>
  /\ dens = zero_dens /\ dens_max = zero_dens
  /\ dens_saha = zero_dens /\ tmp_dens = zero_dens
  /\ rate_mat = << >> /\ rate_mat_max = << >>
  /\ op_mat = << >> /\ op_mat_max = << >>
  /\ built = FALSE
  /\ residual = 0
  /\ last_call = "__init__" /\ prev_call = "__init__"
  /\ pc = "ok"

InitEvolve == ImpIdle /\ EvolveInit /\ RunIdle /\ ConstructIdle /\ DiagIdle /\ EffIdle

NextEvolve ==
  \/ \E rank \in Ranks : EvolveStep(rank)
  \/ RootReduce
  \/ \E rank \in Ranks : RecvBcast(rank)
  \/ \E rank \in Ranks : EvolveReturn(rank)

SpecEvolve == InitEvolve /\ [][NextEvolve]_vars

\* ------------------------------------------------ solver.py: the direct solve
\* lines 28-32: rhs_arr, zero but for the last entry of every local cell, which
\* holds the sum of the initial densities of the cell
rhs_cellLocal(rank, j) == j
rhs_cell(rank, j) == min_x(rank) + j
rhs_arr(n, rank) ==
  [idx \in Idx(Dim(rank)) |->
     IF idx % num_states = num_states - 1
     THEN SumTo(n[rhs_cell(rank, idx \div num_states)], num_states)
     ELSE 0]

\* lines 43-48: setValue(row, col, 1.0) for row = offset + num_states - 1 and
\* col = offset + j, for every local cell
set_last_rowsOnly(A, rank) ==
  [row \in Idx(Dim(rank)) |-> [col \in Idx(Dim(rank)) |->
     IF /\ row % num_states = num_states - 1
        /\ col \div num_states = row \div num_states
     THEN 1
     ELSE 0]]
set_last_rows(A, rank) ==
  [row \in Idx(Dim(rank)) |-> [col \in Idx(Dim(rank)) |->
     IF /\ row % num_states = num_states - 1
        /\ col \div num_states = row \div num_states
     THEN 1
     ELSE A[row][col]]]

\* lines 28-50: the right-hand side and the conservation rows
SolveSetup(rank) ==
  /\ k_pc[rank] = "setup"
  /\ rhs' = [rhs EXCEPT ![rank] = rhs_arr(n_init, rank)]
  /\ rate_matrix' = [rate_matrix EXCEPT ![rank] = set_last_rows(@, rank)]
  /\ k_pc' = [k_pc EXCEPT ![rank] = "ksp"]
  /\ UNCHANGED << num_procs, n_stable, cell_sample, n_init, dt, num_t, dndt_thresh, ksp_tol,
                  loop_i, n_old, n_new, ksp_failed, dndt, prev_residual, compared_prev,
                  dndt_global, exit_flag, branch, n_solved, all_gathered, bcast_box,
                  at_barrier, cell_dndt >>
  /\ UNCHANGED << imp_vars, run_vars, init_vars, diag_vars, eff_vars >>

\* lines 52-72: ksp.solve(rhs, n_solved); a negative converged reason returns
\* None at once, anything else goes on to the barrier
SolveKsp(rank) ==
  /\ k_pc[rank] = "ksp"
  /\ \E o \in KspOutcomes(rate_matrix[rank], rhs[rank], ksp_tol, rank) :
       /\ n_new' = [n_new EXCEPT ![rank] = o.n]
       /\ ksp_failed' = [ksp_failed EXCEPT ![rank] = IF o.reason < 0 THEN 1 ELSE 0]
       /\ IF o.reason < 0
          THEN /\ n_solved' = [n_solved EXCEPT ![rank] = NoneResult]
               /\ k_pc' = [k_pc EXCEPT ![rank] = "returned"]
               /\ UNCHANGED at_barrier
          ELSE /\ k_pc' = [k_pc EXCEPT ![rank] = "barrier"]
               /\ at_barrier' = at_barrier \cup {rank}
               /\ UNCHANGED n_solved
  /\ UNCHANGED << num_procs, n_stable, cell_sample, n_init, dt, num_t, dndt_thresh, ksp_tol,
                  rate_matrix, rhs, loop_i, n_old, dndt, prev_residual, compared_prev,
                  dndt_global, exit_flag, branch, all_gathered, bcast_box, cell_dndt >>
  /\ UNCHANGED << imp_vars, run_vars, init_vars, diag_vars, eff_vars >>

\* lines 74-78: past PETSc.COMM_WORLD.Barrier() the rank returns its array
SolveReturn(rank) ==
  /\ k_pc[rank] = "barrier"
  /\ at_barrier = Ranks
  /\ k_pc' = [k_pc EXCEPT ![rank] = "returned"]
  /\ n_solved' = [n_solved EXCEPT ![rank] = as_array(n_new[rank], rank)]
  /\ UNCHANGED << num_procs, n_stable, cell_sample, n_init, dt, num_t, dndt_thresh, ksp_tol,
                  rate_matrix, rhs, loop_i, n_old, n_new, ksp_failed, dndt, prev_residual,
                  compared_prev, dndt_global, exit_flag, branch, all_gathered, bcast_box,
                  at_barrier, cell_dndt >>
  /\ UNCHANGED << imp_vars, run_vars, init_vars, diag_vars, eff_vars >>

\* the ranks at the top of solve, with the matrices the builder filled
SolveInit ==
  /\ num_procs \in 1 .. num_x
  /\ cell_sample \in [Cells -> {PetscSample(k) : k \in 1 .. MaxPetscSample}]
  /\ n_init = [g \in Cells |-> [k \in States |->
                 IF k = 0 THEN cell_sample[g].n0 ELSE cell_sample[g].n1]]
  /\ rate_matrix = [q \in Ranks |-> local_rate_matrix(cell_sample, q)]
  /\ ksp_tol \in {0, 1}
  /\ dt = 1 /\ num_t = 1 /\ dndt_thresh = 1
  /\ rhs = [q \in Ranks |-> ZeroVec(Dim(q))]
  /\ k_pc = [q \in Ranks |-> "setup"]
  /\ n_new = [q \in Ranks |-> ZeroVec(Dim(q))]
  /\ n_stable = << >>
  /\ ksp_failed = [q \in Ranks |-> 0]
  /\ n_solved = [q \in Ranks |-> Pending]
  /\ at_barrier = {}
  /\ loop_i = << >> /\ n_old = << >> /\ dndt = << >>
  /\ prev_residual = << >> /\ compared_prev = << >>
  /\ dndt_global = << >> /\ exit_flag = << >> /\ branch = << >>
  /\ all_gathered = << >> /\ bcast_box = << >> /\ cell_dndt = << >>

InitSolve == ImpIdle /\ SolveInit /\ RunIdle /\ ConstructIdle /\ DiagIdle /\ EffIdle

NextSolve ==
  \/ \E rank \in Ranks : SolveSetup(rank)
  \/ \E rank \in Ranks : SolveKsp(rank)
  \/ \E rank \in Ranks : SolveReturn(rank)

SpecSolve == InitSolve /\ [][NextSolve]_vars

\* --------------------------------------------------- sike/core.py: run()
MaxImpurities == 2    \* elements in opts["modelled_impurities"]
Elements == << "Li", "Be", "C", "N" >>
Els == {modelled_impurities[k] : k \in 1 .. Len(modelled_impurities)}

\* the outcome of one call of the solver: None, or the solved densities
SolverResults == {NoneResult, "n_solved"}

\* the build_matrix call run() makes next: lines 347-348 and 356-357
next_buildUnasked ==
  IF run_pc = "line347" THEN "kinetic"
  ELSE IF run_pc \in {"line347", "line356"} /\ maxwellian_electrons THEN "Maxwellian"
  ELSE "none"
next_build ==
  IF run_pc = "line347" /\ kinetic_electrons THEN "kinetic"
  ELSE IF run_pc \in {"line347", "line356"} /\ maxwellian_electrons THEN "Maxwellian"
  ELSE "none"

\* build_matrix(kinetic): a rate matrix for every element (lines 422-506)
build_matrix ==
  /\ next_build # "none"
  /\ IF next_build = "kinetic"
     THEN rate_mats' = Els /\ UNCHANGED rate_mats_Max
     ELSE rate_mats_Max' = Els /\ UNCHANGED rate_mats
  /\ kinetic' = (next_build = "kinetic")
  /\ el_i' = 1
  /\ run_pc' = "compute"
  /\ UNCHANGED << modelled_impurities, kinetic_electrons, maxwellian_electrons,
                  self_evolve, success, imp_dens, imp_dens_Max, failed_calls >>
  /\ UNCHANGED << imp_vars, ksp_vars, init_vars, diag_vars, eff_vars >>

\* a compute_densities that stores whatever the solver returned
compute_densitiesUnchecked ==
  /\ run_pc = "compute"
  /\ LET el == modelled_impurities[el_i]
     IN \E res \in SolverResults :
          /\ IF kinetic
             THEN imp_dens' = [imp_dens EXCEPT ![el] = res] /\ UNCHANGED imp_dens_Max
             ELSE imp_dens_Max' = [imp_dens_Max EXCEPT ![el] = res] /\ UNCHANGED imp_dens
          /\ success' = (res # NoneResult)
          /\ failed_calls' = IF res # NoneResult THEN failed_calls
                             ELSE failed_calls \cup {<< kinetic, el >>}
  /\ IF el_i < Len(modelled_impurities)
     THEN el_i' = el_i + 1 /\ UNCHANGED run_pc
     ELSE /\ UNCHANGED el_i
          /\ run_pc' = IF kinetic THEN "line356" ELSE "returned"
  /\ UNCHANGED << modelled_impurities, kinetic_electrons, maxwellian_electrons,
                  self_evolve, kinetic, rate_mats, rate_mats_Max >>
  /\ UNCHANGED << imp_vars, ksp_vars, init_vars, diag_vars, eff_vars >>
\* compute_densities, one element of its loop: the solver call and what is done
\* with n_solved (lines 511-557, 558-603, 605-642, 643-680)
compute_densities ==
  /\ run_pc = "compute"
  /\ LET el == modelled_impurities[el_i]
     IN \E res \in SolverResults :
          /\ IF res # NoneResult
             THEN /\ IF kinetic
                     THEN imp_dens' = [imp_dens EXCEPT ![el] = res] /\ UNCHANGED imp_dens_Max
                     ELSE imp_dens_Max' = [imp_dens_Max EXCEPT ![el] = res] /\ UNCHANGED imp_dens
                  /\ success' = TRUE
                  /\ UNCHANGED failed_calls
             ELSE /\ success' = FALSE
                  /\ failed_calls' = failed_calls \cup {<< kinetic, el >>}
                  /\ UNCHANGED << imp_dens, imp_dens_Max >>
  /\ IF el_i < Len(modelled_impurities)
     THEN el_i' = el_i + 1 /\ UNCHANGED run_pc
     ELSE /\ UNCHANGED el_i
          /\ run_pc' = IF kinetic THEN "line356" ELSE "returned"
  /\ UNCHANGED << modelled_impurities, kinetic_electrons, maxwellian_electrons,
                  self_evolve, kinetic, rate_mats, rate_mats_Max >>
  /\ UNCHANGED << imp_vars, ksp_vars, init_vars, diag_vars, eff_vars >>

\* run() has nothing more to build and returns (line 364)
run_return ==
  /\ run_pc \in {"line347", "line356"}
  /\ next_build = "none"
  /\ run_pc' = "returned"
  /\ UNCHANGED << modelled_impurities, kinetic_electrons, maxwellian_electrons,
                  self_evolve, kinetic, el_i, success, rate_mats, rate_mats_Max,
                  imp_dens, imp_dens_Max, failed_calls >>
  /\ UNCHANGED << imp_vars, ksp_vars, init_vars, diag_vars, eff_vars >>

\* a constructed SIKERun at the entry of run()
RunInit ==
  /\ \E n \in 1 .. MaxImpurities : modelled_impurities = SubSeq(Elements, 1, n)
  /\ kinetic_electrons \in BOOLEAN
  /\ maxwellian_electrons \in BOOLEAN
  /\ self_evolve \in BOOLEAN
  /\ run_pc = "line347"
  /\ kinetic = FALSE
  /\ el_i = 0
  /\ success = "unset"
  /\ rate_mats = {} /\ rate_mats_Max = {}
  /\ imp_dens = [el \in Els |-> "initial"]
  /\ imp_dens_Max = [el \in Els |-> "initial"]
  /\ failed_calls = {}

InitRun == ImpIdle /\ KspIdle /\ RunInit /\ ConstructIdle /\ DiagIdle /\ EffIdle

NextRun ==
  \/ build_matrix
  \/ compute_densities
  \/ run_return

SpecRun == InitRun /\ [][NextRun]_vars

\* ------------------------------------- run() without evolve: the direct solve
\* compute_densities takes its direct-solve branch (lines 604-680) and the
\* ranks run solver.solve; the calls run() makes and the steps of the ranks
\* inside solve interleave
InitDirect ==
  /\ ImpIdle /\ SolveInit /\ RunInit /\ ConstructIdle /\ DiagIdle /\ EffIdle
  /\ ~self_evolve

NextDirect ==
  \/ \E rank \in Ranks : SolveSetup(rank)
  \/ \E rank \in Ranks : SolveKsp(rank)
  \/ \E rank \in Ranks : SolveReturn(rank)
  \/ build_matrix
  \/ compute_densities
  \/ run_return

SpecDirect == InitDirect /\ [][NextDirect]_vars

\* ----------------------------------------- the two direct solves side by side
\* Impurity.solve on the matrices build_rate_matrices stored, and solver.solve
\* on the ranks' local matrices, each changing the matrices it was given; the
\* collisional processes are enabled, the radiative ones either way
InitStored ==
  /\ ImpInit /\ input.DELTA_T = DeltaT(1) /\ input.COLL_ION_REC /\ input.COLL_EX_DEEX
  /\ SolveInit /\ ksp_tol = 0
  /\ RunIdle /\ ConstructIdle /\ DiagIdle /\ EffIdle

NextStored ==
  \/ (build_rate_matrices /\ UNCHANGED << ksp_vars, run_vars, init_vars, diag_vars, eff_vars >>)
  \/ (solve /\ UNCHANGED << ksp_vars, run_vars, init_vars, diag_vars, eff_vars >>)
  \/ \E rank \in Ranks : SolveSetup(rank)
  \/ \E rank \in Ranks : SolveKsp(rank)
  \/ \E rank \in Ranks : SolveReturn(rank)

SpecStored == InitStored /\ [][NextStored]_vars

\* ------------------------------------------------ SIKERun.calc_eff_rate_mats
MaxEffStates == 4     \* the largest tot_states of an impurity here
MaxEffSample == 3     \* local matrices a cell can get (EffSample)

Min2(a, b) == IF a <= b THEN a ELSE b

\* the local matrices fill_local_mat can return for n states: every entry
\* different, a full matrix with a heavier diagonal, and no rates at all
EffSample(k, n) ==
  [r \in Idx(n) |-> [c \in Idx(n) |->
     IF (k - 1) % 3 = 0 THEN r * n + c + 1
     ELSE IF (k - 1) % 3 = 1 THEN (IF r = c THEN 2 ELSE 1)
     ELSE 0]]

\* the indices of a Python slice lo:hi of an axis of length n
py_slice(lo, hi, n) ==
  [k \in Idx(Max2(Min2(hi, n) - Min2(lo, n), 0)) |-> Min2(lo, n) + k]

\* M[rows, cols]
take(A, rows, cols) ==
  [r \in DOMAIN rows |-> [c \in DOMAIN cols |-> A[rows[r]][cols[c]]]]

\* lines 407-410: the slices :num_P and num_P + 1: of an axis
P_slice(p, n) == py_slice(0, p, n)
Q_slice(p, n) == py_slice(p + 1, n, n)

\* line 411: -(M_P - M_PQ @ inv(M_Q) @ M_QP), as a matrix of numerators over
\* the determinant of M_Q
M_eff_of(MP, MPQ, MQ, MQP, p, q) ==
  LET det == Det(MQ, q)
      X == [j \in Idx(p) |-> Cramer(MQ, [r \in Idx(q) |-> MQP[r][j]], q).num]
  IN [den |-> det,
      num |-> [r \in Idx(p) |-> [c \in Idx(p) |->
                 -(det * MP[r][c] - DotTo(MPQ[r], X[c], q))]]]

\* lines 383-390: the next element, its states reordered and counted
eff_element ==
  /\ eff_pc = "element"
  /\ \E n \in 1 .. MaxEffStates : \E p \in 1 .. n :
       /\ eff_tot_states' = n
       /\ num_P' = p
       /\ num_Q' = n - p
  /\ eff_rate_mats' =
       (Elements[eff_el] :> [i \in Idx(eff_loc_num_x) |-> NoneResult]) @@ eff_rate_mats
  /\ eff_i' = 0
  /\ eff_pc' = "cell"
  /\ UNCHANGED << eff_kinetic, eff_els, eff_loc_num_x, eff_el, M_cell, M_P, M_Q, M_PQ,
                  M_QP, stored_eff_rate_mats, stored_eff_rate_mats_Max >>
  /\ UNCHANGED << imp_vars, ksp_vars, run_vars, init_vars, diag_vars >>

\* lines 392-413: one local cell of the element
eff_cell ==
  /\ eff_pc = "cell"
  /\ \E k \in 1 .. MaxEffSample :
       LET A == EffSample(k, eff_tot_states)
           P == P_slice(num_P, eff_tot_states)
           Q == Q_slice(num_P, eff_tot_states)
           MP == take(A, P, P)
           MQ == take(A, Q, Q)
           MPQ == take(A, P, Q)
           MQP == take(A, Q, P)
           p == Cardinality(DOMAIN P)
           q == Cardinality(DOMAIN Q)
       IN /\ M_cell' = A
          /\ M_P' = MP /\ M_Q' = MQ /\ M_PQ' = MPQ /\ M_QP' = MQP
          /\ IF Det(MQ, q) = 0
             THEN \* np.linalg.inv raises
                  /\ eff_pc' = "LinAlgError"
                  /\ UNCHANGED << eff_rate_mats, eff_i, eff_el >>
             ELSE /\ eff_rate_mats' =
                       [eff_rate_mats EXCEPT ![Elements[eff_el]][eff_i] =
                          M_eff_of(MP, MPQ, MQ, MQP, p, q)]
                  /\ IF eff_i + 1 < eff_loc_num_x
                     THEN eff_i' = eff_i + 1 /\ UNCHANGED << eff_el, eff_pc >>
                     ELSE IF eff_el < eff_els
                     THEN eff_el' = eff_el + 1 /\ eff_pc' = "element" /\ UNCHANGED eff_i
                     ELSE eff_pc' = "store" /\ UNCHANGED << eff_el, eff_i >>
  /\ UNCHANGED << eff_kinetic, eff_els, eff_loc_num_x, eff_tot_states, num_P, num_Q,
                  stored_eff_rate_mats, stored_eff_rate_mats_Max >>
  /\ UNCHANGED << imp_vars, ksp_vars, run_vars, init_vars, diag_vars >>

\* lines 417-420: the dict goes to the attribute of the representation
eff_store ==
  /\ eff_pc = "store"
  /\ IF eff_kinetic
     THEN stored_eff_rate_mats' = eff_rate_mats /\ UNCHANGED stored_eff_rate_mats_Max
     ELSE stored_eff_rate_mats_Max' = eff_rate_mats /\ UNCHANGED stored_eff_rate_mats
  /\ eff_pc' = "returned"
  /\ UNCHANGED << eff_kinetic, eff_els, eff_loc_num_x, eff_el, eff_i, eff_tot_states,
                  num_P, num_Q, M_cell, M_P, M_Q, M_PQ, M_QP, eff_rate_mats >>
  /\ UNCHANGED << imp_vars, ksp_vars, run_vars, init_vars, diag_vars >>

\* the entry of calc_eff_rate_mats on a rank with at least one cell
EffInit ==
  /\ eff_kinetic \in BOOLEAN
  /\ eff_els \in 1 .. MaxImpurities
  /\ eff_loc_num_x \in 1 .. num_x
  /\ eff_pc = "element" /\ eff_el = 1 /\ eff_i = 0
  /\ eff_tot_states = 1 /\ num_P = 1 /\ num_Q = 0
  /\ M_cell = << >> /\ M_P = << >> /\ M_Q = << >> /\ M_PQ = << >> /\ M_QP = << >>
  /\ eff_rate_mats = << >>
  /\ stored_eff_rate_mats = << >> /\ stored_eff_rate_mats_Max = << >>

InitEff == ImpIdle /\ KspIdle /\ RunIdle /\ ConstructIdle /\ DiagIdle /\ EffInit

NextEff ==
  \/ eff_element
  \/ eff_cell
  \/ eff_store

SpecEff == InitEff /\ [][NextEff]_vars

\* --------------------------------------------------------- Impurity.get_Zeff
\* the loop over the states: the sum of dens[i, k] * float(z) ** 2
RECURSIVE charge2_sum(_, _)
charge2_sum(row, n) ==
  IF n = 0 THEN 0
  ELSE row[n - 1] * states[n - 1].iz * states[n - 1].iz + charge2_sum(row, n - 1)

\* the value of one cell, as a fraction: the sum, divided by the electron
\* density of the cell if the total density of the cell is positive
Zeff_cell(d, i) ==
  IF SumVec(d[i]) > 0
  THEN [num |-> charge2_sum(d[i], tot_states), den |-> data[i].DENSITY]
  ELSE [num |-> charge2_sum(d[i], tot_states), den |-> 1]

\* a get_Zeff that keeps the arrays it already has
get_ZeffCached ==
  /\ pc = "ok"
  /\ IF Zeff = << >>
     THEN /\ Zeff' = [i \in Cells |-> Zeff_cell(dens, i)]
          /\ Zeff_max' = [i \in Cells |-> Zeff_cell(dens_max, i)]
          /\ Zeff_saha' = [i \in Cells |-> Zeff_cell(dens_saha, i)]
     ELSE UNCHANGED << Zeff, Zeff_max, Zeff_saha >>
  /\ Zeff_last' = Zeff
  /\ UNCHANGED imp_vars
\* lines 406-430: the three arrays are zeroed and filled from the densities
get_Zeff ==
  /\ pc = "ok"
  /\ Zeff' = [i \in Cells |-> Zeff_cell(dens, i)]
  /\ Zeff_max' = [i \in Cells |-> Zeff_cell(dens_max, i)]
  /\ Zeff_saha' = [i \in Cells |-> Zeff_cell(dens_saha, i)]
  /\ Zeff_last' = Zeff
  /\ UNCHANGED imp_vars

\* a script that calls get_Zeff between the other methods, in any order
NextZeff ==
  \/ (build_rate_matrices /\ UNCHANGED << ksp_vars, run_vars, init_vars, diag_vars, eff_vars >>)
  \/ (solve /\ UNCHANGED << ksp_vars, run_vars, init_vars, diag_vars, eff_vars >>)
  \/ (evolve /\ UNCHANGED << ksp_vars, run_vars, init_vars, diag_vars, eff_vars >>)
  \/ (get_saha_eq /\ UNCHANGED << ksp_vars, run_vars, init_vars, diag_vars, eff_vars >>)
  \/ (get_Zeff /\ UNCHANGED << ksp_vars, run_vars, init_vars, eff_vars >>)

\* the script runs with the first setting of the time step
InitZeff == Init /\ input.DELTA_T = DeltaT(1)

SpecZeff == InitZeff /\ [][NextZeff]_vars

\* --------------------------------------- SIKERun.__init__: the cells of a rank
MaxGrid == 4
MaxSize == 4

\* int(rank * loc_x) with loc_x = num_x / num_procs: the product truncated
\* towards zero (both operands are non-negative)
int_times_loc_x(k, nx, np) == (k * nx) \div np

\* lines 204-210 and again 260-266: min_x, max_x and loc_num_x from self.num_x,
\* self.num_procs and self.rank
partition(self) ==
  LET lo == int_times_loc_x(self["rank"], self["num_x"], self["num_procs"])
      hi == IF self["rank"] = self["num_procs"] - 1
            THEN self["num_x"]
            ELSE int_times_loc_x(self["rank"] + 1, self["num_x"], self["num_procs"])
  IN ("min_x" :> lo) @@ ("max_x" :> hi) @@ ("loc_num_x" :> hi - lo) @@ self

\* __init__ line 146 and line 150: the pair of arguments that selects a path
use_distFeOnly(g) == g.fe
use_dist(g) == g.fe /\ g.vgrid
use_profiles(g) == g.Te /\ g.ne

\* lines 146-149 and 194-210: the distribution path keeps fe and vgrid, takes
\* num_x from fe, size and rank from the communicator, then the range
init_from_dist(rank) ==
  /\ init_pc[rank] = "new"
  /\ use_dist(given)
  /\ skrun' = [skrun EXCEPT ![rank] =
                 partition(("fe" :> len_x) @@ ("vgrid" :> 1) @@ ("num_x" :> len_x)
                           @@ ("num_procs" :> comm_size) @@ ("rank" :> rank) @@ @)]
  /\ init_pc' = [init_pc EXCEPT ![rank] = "done"]
  /\ UNCHANGED << comm_size, given, len_x >>
  /\ UNCHANGED << imp_vars, ksp_vars, run_vars, diag_vars, eff_vars >>

\* lines 150-153 and 239-266: the profile path keeps Te and ne, takes a vgrid
\* and num_x from Te, then reads self.num_procs and self.rank at lines 260-262
\* without assigning them; an attribute never assigned raises
init_from_profiles(rank) ==
  /\ init_pc[rank] = "new"
  /\ ~use_dist(given) /\ use_profiles(given)
  /\ LET self == ("Te" :> len_x) @@ ("ne" :> len_x) @@ ("vgrid" :> 1)
                 @@ ("num_x" :> len_x) @@ skrun[rank]
     IN IF {"num_procs", "rank"} \subseteq DOMAIN self
        THEN /\ skrun' = [skrun EXCEPT ![rank] = partition(self)]
             /\ init_pc' = [init_pc EXCEPT ![rank] = "done"]
        ELSE /\ skrun' = [skrun EXCEPT ![rank] = self]
             /\ init_pc' = [init_pc EXCEPT ![rank] = "AttributeError"]
  /\ UNCHANGED << comm_size, given, len_x >>
  /\ UNCHANGED << imp_vars, ksp_vars, run_vars, diag_vars, eff_vars >>

\* lines 154-157: neither pair is complete
raise_ValueError(rank) ==
  /\ init_pc[rank] = "new"
  /\ ~use_dist(given) /\ ~use_profiles(given)
  /\ init_pc' = [init_pc EXCEPT ![rank] = "ValueError"]
  /\ UNCHANGED << comm_size, given, len_x, skrun >>
  /\ UNCHANGED << imp_vars, ksp_vars, run_vars, diag_vars, eff_vars >>

\* every rank enters __init__ with the same arguments and has reached line 146
ConstructInit ==
  /\ comm_size \in 1 .. MaxSize
  /\ given \in [fe : BOOLEAN, vgrid : BOOLEAN, Te : BOOLEAN, ne : BOOLEAN]
  /\ len_x \in 1 .. MaxGrid
  /\ skrun = [r \in Idx(comm_size) |-> << >>]
  /\ init_pc = [r \in Idx(comm_size) |-> "new"]

InitConstruct == ImpIdle /\ KspIdle /\ RunIdle /\ ConstructInit /\ DiagIdle /\ EffIdle

NextConstruct ==
  \/ \E rank \in Idx(comm_size) : init_from_dist(rank)
  \/ \E rank \in Idx(comm_size) : init_from_profiles(rank)
  \/ \E rank \in Idx(comm_size) : raise_ValueError(rank)

SpecConstruct == InitConstruct /\ [][NextConstruct]_vars

\* --------------------------------------------- Impurity.get_radrec_E_rates
\* State.energy and Transition.thresh of the data files: the excited state of a
\* stage lies above its ground state and below the ionization threshold
energy(loc) == loc % 2
thresh(iz_trans) == 2 + states[iz_trans.from_loc].iz

\* get_radrec_E: the loop keeps the value of the last matching ionization; with
\* no match `eps` is unbound at the return
RECURSIVE get_radrec_E_from(_, _, _)
get_radrec_E_from(izs, radrec_trans, eps) ==
  IF izs = << >> THEN eps
  ELSE LET iz_trans == Head(izs) IN
       get_radrec_E_from(
         Tail(izs), radrec_trans,
         IF /\ states[iz_trans.from_loc].iz = states[radrec_trans.to_loc].iz
            /\ states[iz_trans.to_loc].iz = states[radrec_trans.from_loc].iz
         THEN [bound |-> TRUE, value |-> thresh(iz_trans) - energy(radrec_trans.to_loc)]
         ELSE eps)

get_radrec_E(radrec_trans) ==
  get_radrec_E_from(iz_transitions, radrec_trans, [bound |-> FALSE, value |-> 0])

\* the sum of one cell: eps * alpha_radrec * ne[i] * dens[i, from_loc] over the
\* radiative recombinations (the positive unit factors left out)
RECURSIVE radrec_E_sum(_, _, _)
radrec_E_sum(ts, i, d) ==
  IF ts = << >> THEN 0
  ELSE get_radrec_E(Head(ts)).value * alpha_radrec(data[i].TEMPERATURE)
       * data[i].DENSITY * d[i][Head(ts).from_loc]
       + radrec_E_sum(Tail(ts), i, d)

\* get_radrec_E_rates: the two arrays, or the exception of get_radrec_E
get_radrec_E_rates ==
  IF input.RAD_REC /\ \E j \in DOMAIN radrec_transitions :
                        ~get_radrec_E(radrec_transitions[j]).bound
  THEN [raised |-> "UnboundLocalError",
        radrec_E_rates |-> << >>, radrec_E_rates_max |-> << >>]
  ELSE [raised |-> "",
        radrec_E_rates |->
          [i \in Cells |-> IF input.RAD_REC
                           THEN radrec_E_sum(radrec_transitions, i, dens) ELSE 0],
        radrec_E_rates_max |->
          [i \in Cells |-> IF input.RAD_REC
                           THEN radrec_E_sum(radrec_transitions, i, dens_max) ELSE 0]]

\* ------------------------------------------------------------------ claims
ColumnsSumToZero(M) == \A c \in Locs : ColSumTo(M, c, tot_states) = 0

\* C1: right after build_rate_matrices every column of every cell's kinetic and
\* Maxwellian rate matrix sums to zero, whatever the toggles and the rates.
C1_ColumnSumZero ==
  (last_call = "build_rate_matrices" /\ pc = "ok") =>
    \A i \in Cells : ColumnsSumToZero(rate_mat[i]) /\ ColumnsSumToZero(rate_mat_max[i])

C1_Witness ==
  /\ last_call = "build_rate_matrices" /\ pc = "ok"
  /\ \E i \in Cells : /\ rate_mat[i] # ZeroMat(tot_states)
                      /\ rate_mat[i] # rate_mat_max[i]
                      /\ rate_mat_max[i][0][0] < 0

\* C2: an evolve step leaves the total density of every cell unchanged, for the
\* kinetic and the Maxwellian densities.
C2_EvolveConserves ==
  [][last_call' = "evolve" =>
       \A i \in Cells : /\ SumVec(dens'[i]) = SumVec(dens[i])
                        /\ SumVec(dens_max'[i]) = SumVec(dens_max[i])]_vars

C2_Witness ==
  /\ last_call = "evolve" /\ prev_call = "evolve"
  /\ residual > 0
  /\ \E i \in Cells : dens_max[i] # init_dens(data)[i] /\ dens[i] # dens_max[i]

\* C3: a direct solve leaves in every cell densities whose sum is the total the
\* cell held before the solve, for the kinetic and the Maxwellian densities.
C3_SolveKeepsTotal ==
  [][last_call' = "solve" =>
       \A i \in Cells : /\ SumVec(dens'[i]) = SumVec(dens[i])
                        /\ SumVec(dens_max'[i]) = SumVec(dens_max[i])]_vars

C3_Witness ==
  /\ last_call = "solve" /\ pc = "ok"
  /\ \A i \in Cells : /\ dens[i] # init_dens(data)[i]
                      /\ dens_max[i] # init_dens(data)[i]
                      /\ SumVec(dens[i]) = FRAC_IMP_DENS * data[i].DENSITY

\* C5: a direct solve run on the state a completed direct solve left changes
\* no density.
C5_SolveIdempotent ==
  [][(last_call = "solve" /\ pc = "ok" /\ last_call' = "solve") =>
       (dens' = dens /\ dens_max' = dens_max /\ pc' = "ok")]_vars

C5_Witness ==
  /\ last_call = "solve" /\ prev_call = "solve" /\ pc = "ok"
  /\ \E i \in Cells : dens[i] # init_dens(data)[i]

\* ------------------------------------------------ solver.py: time evolution
\* a rank takes the decision of its current step in this transition
Decides(rank) == k_pc[rank] = "gather" /\ k_pc'[rank] # "gather"

\* the number of steps a rank has decided
decided(rank) == loop_i[rank] + (IF branch[rank] = "continue" THEN 0 ELSE 1)

\* C6: a rank leaves the loop at a step exactly when the solver failed
\* somewhere, or the global residual is below the threshold, or the step was
\* the last of the num_t steps, or the global residual rose above the previous
\* one past the settling fraction (more than a tenth of num_t); and no rank
\* ever starts a step beyond num_t
C6_StopsExactlyWhen ==
  /\ [][\A r \in Ranks :
          Decides(r) =>
            ((k_pc'[r] # "loop") <=>
               \/ exit_flag'[r] > 0
               \/ dndt_global'[r] < dndt_thresh
               \/ loop_i[r] + 1 >= num_t
               \/ (dndt_global'[r] > prev_residual[r] /\ 10 * loop_i[r] > num_t))]_vars
  /\ [](\A r \in Ranks : loop_i[r] < num_t)

\* a rank of a run of ten steps or more stopped on a residual that rose past
\* the settling fraction, before the steps were used up
C6_Witness ==
  \E r \in Ranks :
    /\ num_t >= 10
    /\ branch[r] = "diverged"
    /\ loop_i[r] >= 2 /\ loop_i[r] + 1 < num_t
    /\ dndt_global[r] > compared_prev[r]
    /\ dndt_global[r] >= dndt_thresh
    /\ exit_flag[r] = 0

\* C7: the residual a rank decides with is the maximum of the local residuals
\* of all ranks at that step, which is the maximum over all cells of the grid;
\* the other ranks decide with the value the root decided with
C7_GlobalResidualIsMax ==
  [][/\ Decides(0) =>
          /\ dndt_global'[0] = MaxOf({dndt[q] : q \in Ranks})
          /\ dndt_global'[0] = MaxOf({cell_dndt[g] : g \in Cells})
     /\ \A r \in Ranks \ {0} :
          Decides(r) => (dndt_global'[r] = dndt_global[0] /\ loop_i[r] = loop_i[0] -
                           (IF branch[0] = "continue" THEN 1 ELSE 0))]_vars

\* both ranks have decided a step with a residual above rank 0's own
C7_Witness ==
  /\ num_procs = 2
  /\ k_pc[0] # "gather" /\ k_pc[1] # "gather"
  /\ decided(0) = decided(1) /\ decided(0) > 0
  /\ dndt_global[0] > dndt[0]
  /\ dndt_global[1] = dndt_global[0]
  /\ exit_flag[0] = 0

\* C8: ranks that have decided the same number of steps took the same branch
\* at the same step index, and no rank goes past the step another stopped at
C8_SameBranch ==
  \A p \in Ranks : \A q \in Ranks :
    /\ decided(p) = decided(q) => (branch[p] = branch[q] /\ loop_i[p] = loop_i[q])
    /\ branch[p] # "continue" => loop_i[q] <= loop_i[p]
    /\ decided(p) - decided(q) \in {-1, 0, 1}

\* two ranks stopped on divergence at the same step although their own
\* residuals differ
C8_Witness ==
  /\ num_procs = 2
  /\ \A r \in Ranks : branch[r] = "diverged" /\ k_pc[r] = "returned"
  /\ loop_i[0] = loop_i[1] /\ loop_i[0] > 0
  /\ dndt[0] # dndt[1]

\* C9: when the solve of a step failed on some rank, every rank aborts at that
\* step and returns None; when it failed on none, no rank aborts
C9_FailureAbortsAll ==
  [][/\ Decides(0) =>
          LET failed == \E q \in Ranks : ksp_failed[q] = 1
          IN /\ failed => (branch'[0] = "abort" /\ n_solved'[0] = NoneResult
                           /\ k_pc'[0] = "returned")
             /\ ~failed => (branch'[0] # "abort" /\ n_solved'[0] # NoneResult)
     /\ \A r \in Ranks \ {0} :
          Decides(r) =>
            /\ (branch'[r] = "abort") <=> (branch[0] = "abort")
            /\ branch'[r] = "abort" =>
                 (n_solved'[r] = NoneResult /\ k_pc'[r] = "returned"
                  /\ loop_i'[r] = loop_i[0])
            /\ branch'[r] # "abort" => n_solved'[r] # NoneResult]_vars

\* the solve failed on rank 1 only, after a step that went well, and both
\* ranks returned None
C9_Witness ==
  /\ num_procs = 2
  /\ ksp_failed[0] = 0 /\ ksp_failed[1] = 1
  /\ loop_i[0] > 0
  /\ \A r \in Ranks : n_solved[r] = NoneResult /\ k_pc[r] = "returned"

\* --------------------------------------------------- solver.py: direct solve
\* C4: once a rank has set its system up, the last row of every cell it owns
\* holds ones in that cell's columns and nothing in the columns of other
\* cells, and the right-hand side is zero but for the last entry of every
\* cell, which is the sum over the states of the initial densities of that
\* cell of the grid (cell min_x + local index)
C4_SolveSetUp ==
  \A rank \in Ranks :
    k_pc[rank] # "setup" =>
      \A j \in Idx(loc_num_x(rank)) :
        LET last == j * num_states + num_states - 1
        IN /\ \A col \in Idx(Dim(rank)) :
                rate_matrix[rank][last][col] =
                  (IF col \div num_states = j THEN 1 ELSE 0)
           /\ \A k \in States :
                rhs[rank][j * num_states + k] =
                  (IF k = num_states - 1
                   THEN SumTo(n_init[min_x(rank) + j], num_states)
                   ELSE 0)

\* the second of two ranks has set up a system for a cell whose total differs
\* from the total of the first cell of the grid
C4_Witness ==
  /\ num_procs = 2
  /\ k_pc[1] # "setup"
  /\ rhs[1][num_states - 1] # SumTo(n_init[0], num_states)
  /\ rhs[1][num_states - 1] > 0
  /\ \E c \in States : local_rate_matrix(cell_sample, 1)[num_states - 1][c] # 1

\* ------------------------------------------------------ sike/core.py: run()
\* C10: once a solver call of a time-evolving run has returned None, run()
\* builds no further matrix and makes no further solver call for another
\* representation, it ends with success False, and the densities of a failed
\* call are never replaced
C10_FailureAbortsRun ==
  /\ [][(self_evolve /\ failed_calls # {}) =>
          /\ rate_mats' = rate_mats
          /\ rate_mats_Max' = rate_mats_Max
          /\ kinetic' = kinetic]_vars
  /\ []((self_evolve /\ failed_calls # {} /\ run_pc = "returned") => success = FALSE)
  /\ [](\A c \in failed_calls :
          IF c[1] THEN imp_dens[c[2]] = "initial" ELSE imp_dens_Max[c[2]] = "initial")

\* ------------------------------------------------- C11: stop on an increase
\* C11: a rank that left the loop because the global residual rose after the
\* settling window returns normally, and what it returns is the array of the
\* densities it held before the step whose residual rose (an array, so not None)
C11_ReturnsLastStable ==
  \A r \in Ranks :
    (k_pc[r] = "returned" /\ branch[r] = "diverged")
      => n_solved[r] = as_array(n_stable[r], r)


\* ------------------------------------------ C12: one step at a time, in step
\* a rank begins the local solve of a step
Starts(rank) == k_pc[rank] = "loop" /\ k_pc'[rank] = "gather"

\* C12: the root takes the decision of a step only when every rank has solved
\* that step and contributed its values of it, and a rank begins the solve of
\* the next step only after the root has reduced the step before and that
\* broadcast has reached the rank
C12_StepsInLockstep ==
  [][/\ Decides(0) =>
          \A q \in Ranks :
            /\ k_pc[q] = "gather" /\ loop_i[q] = loop_i[0]
            /\ all_gathered[q] = [ksp_failed |-> ksp_failed[q], dndt |-> dndt[q]]
     /\ \A r \in Ranks :
          (Starts(r) /\ loop_i[r] > 0) =>
            /\ decided(0) >= loop_i[r]
            /\ loop_i[0] \in {loop_i[r] - 1, loop_i[r]}
            /\ bcast_box[r] = << >>
            /\ dndt_global[r] = dndt_global[0]
            /\ exit_flag[r] = exit_flag[0]]_vars

\* rank 1 has begun the solve of a later step, having received the broadcast
\* of the step before, while the root has not yet begun its own
C12_Witness ==
  /\ num_procs = 2
  /\ loop_i[1] >= 1 /\ loop_i[0] = loop_i[1]
  /\ k_pc[1] = "gather" /\ k_pc[0] = "loop"
  /\ all_gathered[1] # NoMsg /\ all_gathered[0] = NoMsg


\* ---------------------------------------------- C13: the ranges of the ranks
Assigned(r) == {"min_x", "max_x", "loc_num_x"} \subseteq DOMAIN skrun[r]

\* C13: once every rank has left an initialisation that was given its arrays
\* (so with num_x >= 1), each rank holds a range
\* [min_x, max_x) with loc_num_x = max_x - min_x >= 0, the ranges follow one
\* another from 0 to num_x without gap or overlap, and every cell of
\* 0 .. num_x - 1 lies in the range of exactly one rank
C13_RangesPartitionCells ==
  (\A r \in Idx(comm_size) : init_pc[r] \notin {"new", "ValueError"}) =>
    /\ \A r \in Idx(comm_size) : Assigned(r)
    /\ \A r \in Idx(comm_size) :
         /\ skrun[r]["loc_num_x"] = skrun[r]["max_x"] - skrun[r]["min_x"]
         /\ skrun[r]["loc_num_x"] >= 0
         /\ skrun[r]["min_x"] = (IF r = 0 THEN 0 ELSE skrun[r - 1]["max_x"])
    /\ skrun[comm_size - 1]["max_x"] = len_x
    /\ \A cell \in Idx(len_x) :
         Cardinality({r \in Idx(comm_size) :
                        skrun[r]["min_x"] <= cell /\ cell < skrun[r]["max_x"]}) = 1


\* ------------------------------------------- C14: records with a missing state
\* the list load_transitions fills for a kind of record, and its toggle
ListOf(kind) ==
  CASE kind = "ionization" -> iz_transitions
    [] kind = "radrec" -> radrec_transitions
    [] kind = "excitation" -> ex_transitions

ToggleOf(kind) ==
  CASE kind = "ionization" -> input.COLL_ION_REC
    [] kind = "radrec" -> input.RAD_REC
    [] kind = "excitation" -> input.COLL_EX_DEEX

\* the state table has a state of this stage and name at loc
IsState(loc, iz, statename) ==
  loc \in Locs /\ states[loc].iz = iz /\ states[loc].statename = statename

\* both states a catalog record names are in the state table
BothFound(l) ==
  /\ \E k \in Locs : IsState(k, l.from_iz, l.from_statename)
  /\ \E k \in Locs : IsState(k, l.to_iz, l.to_statename)

\* the records of a kind, in catalog order, whose states are both found
RecordsFound(kind) ==
  SelectSeq(transitions_txt, LAMBDA l : l.trans_type = kind /\ BothFound(l))

\* C14: every transition kept joins two states of the state table, and the
\* transitions kept for an enabled kind are, one for one and in catalog order,
\* the records of that kind whose states are both found: a record that names a
\* missing state is left out, the load raises nothing, and the other records
\* are kept as they would be without it
C14_MissingStateDropped ==
  /\ last_call = "__init__" => pc = "ok"
  /\ \A kind \in {"ionization", "radrec", "excitation"} :
       LET L == ListOf(kind)
           kept == RecordsFound(kind)
       IN /\ \A j \in DOMAIN L : L[j].from_loc \in Locs /\ L[j].to_loc \in Locs
          /\ ToggleOf(kind) =>
               /\ Len(L) = Len(kept)
               /\ \A j \in DOMAIN L :
                    /\ IsState(L[j].from_loc, kept[j].from_iz, kept[j].from_statename)
                    /\ IsState(L[j].to_loc, kept[j].to_iz, kept[j].to_statename)

\* the catalog names missing states in records of every kind, all kinds are
\* enabled, and the matrices were built from the lists that were kept
C14_Witness ==
  /\ input.COLL_ION_REC /\ input.RAD_REC /\ input.COLL_EX_DEEX
  /\ \A kind \in {"ionization", "radrec", "excitation"} :
       /\ Len(ListOf(kind)) >= 1
       /\ Len(ListOf(kind)) <
            Len(SelectSeq(transitions_txt, LAMBDA l : l.trans_type = kind))
  /\ last_call = "build_rate_matrices" /\ pc = "ok"


\* ------------------------------------------------- C15: the feature toggles
Kinds == {"ionization", "radrec", "excitation", "spontem"}

\* the toggle record that enables one kind alone
OnlyKind(kind) ==
  [COLL_ION_REC |-> kind = "ionization", RAD_REC |-> kind = "radrec",
   COLL_EX_DEEX |-> kind = "excitation", SPONT_EM |-> kind = "spontem"]

\* is the kind enabled in the toggle record
Enabled(inp, kind) ==
  CASE kind = "ionization" -> inp.COLL_ION_REC
    [] kind = "radrec" -> inp.RAD_REC
    [] kind = "excitation" -> inp.COLL_EX_DEEX
    [] kind = "spontem" -> inp.SPONT_EM

\* the transitions of a kind the object holds
Held(kind) == IF kind = "spontem" THEN spontem_transitions ELSE ListOf(kind)

\* the transitions of a kind the catalogs give when nothing is disabled
AllOf(kind) ==
  IF kind = "spontem" THEN load_spontem_transitions
  ELSE load_kind(transitions_txt, kind, TRUE)

\* what the kind alone adds to the matrix of cell i
Contribution(kind, i, is_kinetic) ==
  build_cell(OnlyKind(kind), data, AllOf("ionization"), AllOf("radrec"),
             AllOf("excitation"), AllOf("spontem"), i, is_kinetic)

\* the sum of the contributions of the enabled kinds among ks
RECURSIVE EnabledSum(_, _, _)
EnabledSum(ks, i, is_kinetic) ==
  IF ks = {} THEN ZeroMat(tot_states)
  ELSE LET kind == CHOOSE x \in ks : TRUE
           rest == EnabledSum(ks \ {kind}, i, is_kinetic)
           own == Contribution(kind, i, is_kinetic)
       IN [r \in Locs |-> [c \in Locs |->
             rest[r][c] + (IF Enabled(input, kind) THEN own[r][c] ELSE 0)]]

\* C15: a disabled kind holds no transitions; an enabled kind holds what the
\* catalogs give for it whatever the other three toggles are; and the matrices
\* of a build are the sum of what each enabled kind adds on its own, so a
\* disabled kind adds nothing to any entry
C15_TogglesIndependent ==
  /\ \A kind \in Kinds :
       Held(kind) = (IF Enabled(input, kind) THEN AllOf(kind) ELSE << >>)
  /\ (last_call = "build_rate_matrices" /\ pc = "ok") =>
       \A i \in Cells :
         /\ rate_mat[i] = EnabledSum(Kinds, i, TRUE)
         /\ rate_mat_max[i] = EnabledSum(Kinds, i, FALSE)

\* built with excitation alone disabled: the other three kinds hold their
\* transitions and the matrix has entries, none of them from an excitation
C15_Witness ==
  /\ input.COLL_ION_REC /\ input.RAD_REC /\ ~input.COLL_EX_DEEX /\ input.SPONT_EM
  /\ last_call = "build_rate_matrices" /\ pc = "ok"
  /\ AllOf("excitation") # << >> /\ ex_transitions = << >>
  /\ iz_transitions # << >> /\ radrec_transitions # << >> /\ spontem_transitions # << >>
  /\ \E i \in Cells : /\ rate_mat[i] # ZeroMat(tot_states)
                      /\ rate_mat[i] # rate_mat_max[i]
                      /\ Contribution("excitation", i, TRUE) # ZeroMat(tot_states)


\* -------------------------------------------- C16: the entries a transition adds
\* the forward rate of a held transition in cell i
ForwardRate(t, i, is_kinetic) ==
  CASE t.kind = "ionization" ->
         collrate_const * ion_rate(f0_of(data, i, is_kinetic), t.sigma)
    [] t.kind = "radrec" -> data[i].DENSITY * alpha_radrec(data[i].TEMPERATURE)
    [] t.kind = "excitation" ->
         collrate_const * ex_rate(f0_of(data, i, is_kinetic), t.sigma)
    [] t.kind = "spontem" -> t.spontem_rate

\* the rate of its inverse process: three-body recombination, de-excitation,
\* and none for the radiative kinds
InverseRate(t, i, is_kinetic) ==
  CASE t.kind = "ionization" ->
         data[i].DENSITY * collrate_const * tbrec_norm
         * tbrec_rate(f0_of(data, i, is_kinetic), data[i].TEMPERATURE, t.sigma)
    [] t.kind = "excitation" ->
         collrate_const * deex_rate(f0_of(data, i, is_kinetic), t.sigma)
    [] OTHER -> 0

\* what one transition from s to d adds at entry (r, c)
Stamp(t, K, K_inv, r, c) ==
  (IF r = t.from_loc /\ c = t.from_loc THEN -K ELSE 0)
  + (IF r = t.to_loc /\ c = t.from_loc THEN K ELSE 0)
  + (IF r = t.to_loc /\ c = t.to_loc THEN -K_inv ELSE 0)
  + (IF r = t.from_loc /\ c = t.to_loc THEN K_inv ELSE 0)

RECURSIVE SumStamps(_, _, _, _, _)
SumStamps(ts, i, is_kinetic, r, c) ==
  IF ts = << >> THEN 0
  ELSE Stamp(Head(ts), ForwardRate(Head(ts), i, is_kinetic),
             InverseRate(Head(ts), i, is_kinetic), r, c)
       + SumStamps(Tail(ts), i, is_kinetic, r, c)

HeldTransitions ==
  iz_transitions \o radrec_transitions \o ex_transitions \o spontem_transitions

\* C16: after a build every entry of every cell's matrix is the sum, over the
\* held transitions, of -K at (s,s), +K at (d,s) and, for ionization and
\* excitation, -K_inv at (d,d) and +K_inv at (s,d); a transition adds nothing
\* to any other entry
C16_EntriesPerTransition ==
  (last_call = "build_rate_matrices" /\ pc = "ok") =>
    \A i \in Cells : \A r \in Locs : \A c \in Locs :
      /\ rate_mat[i][r][c] = SumStamps(HeldTransitions, i, TRUE, r, c)
      /\ rate_mat_max[i][r][c] = SumStamps(HeldTransitions, i, FALSE, r, c)

\* built with every kind enabled, in a cell where ionization and its inverse
\* have different positive rates and the radiative recombination is at work
C16_Witness ==
  /\ last_call = "build_rate_matrices" /\ pc = "ok"
  /\ \A kind \in Kinds : Enabled(input, kind) /\ Held(kind) # << >>
  /\ \E i \in Cells :
       /\ ForwardRate(iz_transitions[1], i, TRUE) > 0
       /\ InverseRate(iz_transitions[1], i, TRUE) > ForwardRate(iz_transitions[1], i, TRUE)
       /\ ForwardRate(radrec_transitions[1], i, TRUE) > 0
       /\ rate_mat[i][iz_transitions[1].from_loc][iz_transitions[1].to_loc] > 0


\* ------------------------------- C17: the radiative recombination coefficient
\* the interpolated coefficient, with a negative value replaced by zero
Clamped(Te) == IF radrec_interp(Te) < 0 THEN 0 ELSE radrec_interp(Te)

\* the radiated power of cell i with the clamped coefficient
RECURSIVE ClampedPower(_, _, _)
ClampedPower(ts, i, d) ==
  IF ts = << >> THEN 0
  ELSE get_radrec_E(Head(ts)).value * Clamped(data[i].TEMPERATURE)
       * data[i].DENSITY * d[i][Head(ts).from_loc]
       + ClampedPower(Tail(ts), i, d)

\* how many held radiative recombinations go from s to d
RadrecCount(s, d) ==
  Cardinality({j \in DOMAIN radrec_transitions :
                 radrec_transitions[j].from_loc = s /\ radrec_transitions[j].to_loc = d})

\* C17: what the radiative recombinations add to a built matrix, the part the
\* other enabled kinds do not account for, is ne times the clamped coefficient
\* per transition, never negative at the gain entry, and the radiated-power sum
\* is taken with the same clamped coefficient and is never negative
C17_RadrecNonNegative ==
  /\ (last_call = "build_rate_matrices" /\ pc = "ok" /\ input.RAD_REC) =>
       \A i \in Cells : \A s \in Locs : \A d \in Locs :
         s # d =>
           LET others == EnabledSum(Kinds \ {"radrec"}, i, TRUE)
               used == rate_mat[i][d][s] - others[d][s]
           IN /\ used = RadrecCount(s, d) * data[i].DENSITY * Clamped(data[i].TEMPERATURE)
              /\ used >= 0
  /\ (pc = "ok" /\ get_radrec_E_rates.raised = "") =>
       \A i \in Cells :
         /\ get_radrec_E_rates.radrec_E_rates[i] =
              (IF input.RAD_REC THEN ClampedPower(radrec_transitions, i, dens) ELSE 0)
         /\ get_radrec_E_rates.radrec_E_rates_max[i] =
              (IF input.RAD_REC THEN ClampedPower(radrec_transitions, i, dens_max) ELSE 0)
         /\ get_radrec_E_rates.radrec_E_rates[i] >= 0
         /\ get_radrec_E_rates.radrec_E_rates_max[i] >= 0

\* a matrix built with one cell below the table, where the interpolant is
\* negative, and one above it, and densities a solve has moved into the
\* recombining state, so that the power sum has a positive term
C17_Witness ==
  /\ input.RAD_REC /\ input.COLL_ION_REC /\ built /\ pc = "ok"
  /\ radrec_transitions # << >>
  /\ get_radrec_E_rates.raised = ""
  /\ \E i \in Cells : radrec_interp(data[i].TEMPERATURE) < 0
  /\ \E i \in Cells : /\ radrec_interp(data[i].TEMPERATURE) > 0
                      /\ get_radrec_E_rates.radrec_E_rates[i] > 0


\* --------------------------------------------- C18: densities at construction
\* the lowest ionization stage of the state table
LowestStage == CHOOSE z \in {states[k].iz : k \in Locs} :
                 \A k \in Locs : z <= states[k].iz

C19_SahaNeverEvolved ==
  [][dens_saha' # dens_saha => last_call' = "get_saha_eq"]_vars

\* the reference has been computed, and a solve and then an evolve have moved
\* the densities since; the reference still has the total in it
C19_Witness ==
  /\ dens_saha # zero_dens
  /\ prev_call = "solve" /\ last_call = "evolve" /\ pc = "ok"
  /\ \E i \in Cells : dens[i] # init_dens(data)[i]
  /\ \A i \in Cells : SumVec(dens_saha[i]) = SumVec(dens[i])


\* ----------------------------------------------------- C20: the order of run()
\* the solver has been called for the element in this representation, whether
\* it returned densities or None
Called(is_kinetic, el) ==
  \/ (IF is_kinetic THEN imp_dens[el] ELSE imp_dens_Max[el]) = "n_solved"
  \/ << is_kinetic, el >> \in failed_calls

C21_ResidualPerTimeStep ==
  [][(last_call' = "evolve" /\ pc' = "ok") =>
       /\ residual' * input.DELTA_T =
            Max2(max_abs_diff(dens', dens), max_abs_diff(dens_max', dens_max))
       /\ \A i \in Cells :
            /\ dens'[i] = Solution(apply_op(op_mat[i], dens[i]), tot_states)
            /\ dens_max'[i] = Solution(apply_op(op_mat_max[i], dens_max[i]), tot_states)]_vars


RowsOf(t) ==
  SelectSeq(nist_spontem,
            LAMBDA row : /\ row.iz = states[t.from_loc].iz
                         /\ row.Upper = states[t.from_loc].statename
                         /\ row.Lower = states[t.to_loc].statename)

\* C23: every spontaneous-emission transition held joins two states of one
\* stage, has rows of that stage with its names in the rate table and carries
\* their mean rate, and no two held transitions join the same ordered pair
C23_SpontemByStage ==
  /\ \A j \in DOMAIN spontem_transitions :
       LET t == spontem_transitions[j]
       IN /\ states[t.from_loc].iz = states[t.to_loc].iz
          /\ RowsOf(t) # << >>
          /\ t.spontem_rate = SumRates(RowsOf(t)) \div Len(RowsOf(t))
  /\ \A j \in DOMAIN spontem_transitions : \A k \in DOMAIN spontem_transitions :
       (/\ spontem_transitions[j].from_loc = spontem_transitions[k].from_loc
        /\ spontem_transitions[j].to_loc = spontem_transitions[k].to_loc) => j = k


\* ------------------------------------------------ C24: the effective charge
\* the array holds, for every cell with positive total density, the charge-
\* squared sum of the given densities over the electron density of the cell
ZeffOf(Z, d) ==
  \A i \in Cells :
    SumVec(d[i]) > 0 =>
      Z[i].num * data[i].DENSITY = charge2_sum(d[i], tot_states) * Z[i].den

AllCells(x) == [c \in Cells |-> x]

\* the rate matrix build_rate_matrices gives a cell of electron state e when
\* every other cell holds e too
SoloMatrix(e, is_kinetic) ==
  build_cell(input, AllCells(e), iz_transitions, radrec_transitions, ex_transitions,
             spontem_transitions, 0, is_kinetic)

\* what the cell loop of solve leaves in a cell of densities n and matrix M
\* when every other cell holds n and M too
SoloSolve(n, M) == solve_loop(0, AllCells(n), AllCells(M))

\* what one evolve step gives a cell of densities n and operator op
SoloEvolve(n, op) == Solution(apply_op(op, n), tot_states)

C26_IncreaseStopsOnlyPastSettling ==
  [][\A r \in Ranks :
       Decides(r) =>
         /\ branch'[r] = "diverged" =>
              /\ 10 * loop_i[r] > num_t
              /\ loop_i[r] > 0
              /\ dndt_global'[r] > prev_residual[r]
         /\ (/\ dndt_global'[r] > prev_residual[r]
             /\ 10 * loop_i[r] <= num_t
             /\ exit_flag'[r] = 0
             /\ dndt_global'[r] >= dndt_thresh
             /\ loop_i[r] + 1 < num_t) =>
              /\ branch'[r] = "continue"
              /\ k_pc'[r] = "loop"
              /\ loop_i'[r] = loop_i[r] + 1]_vars

\* a rank went on to the next step after a step, not the first, within the
\* settling fraction whose global residual was above the previous step's
C26_Witness ==
  \E r \in Ranks :
    /\ branch[r] = "continue"
    /\ loop_i[r] >= 2
    /\ 10 * (loop_i[r] - 1) <= num_t
    /\ dndt_global[r] > compared_prev[r]
    /\ exit_flag[r] = 0


\* ------------------------------------------ C27: a failed direct solve writes nothing
\* the solver call of this compute_densities step returned None
ReturnedNone == failed_calls' # failed_calls

C28_BarrierIsPassed ==
  \A r \in Ranks :
    k_pc[r] = "barrier" =>
      \/ at_barrier = Ranks
      \/ \E q \in Ranks \ at_barrier : k_pc[q] \in {"setup", "ksp"}


\* --------------------------------- C29: a direct solve touches the last row only
\* the entries of M2 outside the last row are those of M1 and the last row
\* of M2 is all ones
OnlyLastRow(M1, M2, n) ==
  \A r \in Idx(n) : \A c \in Idx(n) :
    M2[r][c] = (IF r = n - 1 THEN 1 ELSE M1[r][c])

C30_BlocksPartitionStates ==
  M_cell # << >> =>
    /\ Cardinality(DOMAIN M_P) = num_P
    /\ Cardinality(DOMAIN M_Q) = eff_tot_states - num_P
    /\ num_Q = eff_tot_states - num_P
    /\ \A r \in Idx(num_P) : \A c \in Idx(num_P) : M_P[r][c] = M_cell[r][c]
    /\ \A r \in Idx(num_P) : \A c \in Idx(num_Q) : M_PQ[r][c] = M_cell[r][num_P + c]
    /\ \A r \in Idx(num_Q) : \A c \in Idx(num_P) : M_QP[r][c] = M_cell[num_P + r][c]
    /\ \A r \in Idx(num_Q) : \A c \in Idx(num_Q) : M_Q[r][c] = M_cell[num_P + r][num_P + c]

====
